---- MODULE Spec2Model ----
(***************************************************************************)
(* Verification model of the PBL mind-map repository:                      *)
(*   - MindmapJS/dynamic-mindmap: similarity hierarchy (hierarchy.js) and  *)
(*     the App state that feeds it (App.jsx);                              *)
(*   - similarity.js: cosineSimilarity, findSimilarNodes,                  *)
(*     generateSimilarityEdges;                                            *)
(*   - llm-dynamic-mindmap: GraphManager (graphManager.js).                *)
(*                                                                         *)
(* Numbers: a similarity is kept as an exact fraction [n, d] with d > 0.   *)
(* The embedding vectors of the model have integer magnitudes, so the      *)
(* fraction is the value the floating-point code computes.                 *)
(***************************************************************************)
EXTENDS Integers, Sequences, FiniteSets, TLC

VARIABLES
  nodes,           \* App.jsx `nodes` / buildDynamicHierarchy `allNodes`
  rootNodeId,      \* App.jsx `rootNodeId` (Null = null)
  selectedNodeId,  \* App.jsx `selectedNodeId` (Null = null)
  hiddenIds,       \* App.jsx `hiddenIds`
  threshold,       \* App.jsx `threshold` / hierarchy threshold argument
  maxDepth,        \* buildDynamicHierarchy `maxDepth` argument
  hierarchy,       \* the tree returned by buildDynamicHierarchy (or NoTree)
  simNodes,        \* generateSimilarityEdges `nodes` argument
  simThreshold,    \* generateSimilarityEdges `threshold` argument
  maxEdgesPerNode, \* generateSimilarityEdges `maxEdgesPerNode` argument
  simEdges,        \* edge list returned by generateSimilarityEdges
  gmNodes,         \* GraphManager.nodes (Map, insertion ordered)
  gmEdges,         \* GraphManager.edges (Map, insertion ordered)
  nextNodeId,      \* GraphManager.nextNodeId
  nextEdgeId,      \* GraphManager.nextEdgeId
  tasks,           \* in-flight generateRelatedNodes / deepDiveNode calls
  isLoading,       \* App.jsx `isLoading`
  embedder,        \* embedding.js `embedder` (FALSE = null, TRUE = the pipeline)
  embIsLoading,    \* embedding.js `isLoading` (llm-dynamic-mindmap only)
  loadPromise,     \* embedding.js `loadPromise` (llm-dynamic-mindmap only)
  embCalls,        \* in-flight initEmbedding calls
  pipelineLoads,   \* number of times pipeline(...) has been called
  callArgs,        \* arguments of the function call under check
  callResult,      \* what that call returned
  cy,              \* main.js `cy`: the Cytoscape instance, or NoCy
  loadGroupCounter, \* main.js `loadGroupCounter`
  activeNode,      \* main.js `activeNode`
  isProcessing,    \* llm-dynamic-mindmap App.jsx `isProcessing`
  dbltapHandler,   \* the onNodeDoubleClick closure CytoscapeGraph registered at mount
  elementNodes,    \* llm-dynamic-mindmap App.jsx `elements.nodes`: their ids
  replaced,        \* GraphManagers the App no longer holds but a closure or a call does
  userEvents       \* number of user events the llm-dynamic-mindmap App has handled

vars == <<nodes, rootNodeId, selectedNodeId, hiddenIds, threshold, maxDepth,
          hierarchy, simNodes, simThreshold, maxEdgesPerNode, simEdges,
          gmNodes, gmEdges, nextNodeId, nextEdgeId, tasks, isLoading,
          embedder, embIsLoading, loadPromise, embCalls, pipelineLoads,
          callArgs, callResult,
          cy, loadGroupCounter, activeNode, isProcessing, dbltapHandler,
          elementNodes, replaced, userEvents>>

hierVars == <<nodes, rootNodeId, selectedNodeId, hiddenIds, threshold,
              maxDepth, hierarchy, isLoading>>
simVars  == <<simNodes, simThreshold, maxEdgesPerNode, simEdges>>
gmVars   == <<gmNodes, gmEdges, nextNodeId, nextEdgeId, tasks>>
embVars  == <<embedder, embIsLoading, loadPromise, embCalls, pipelineLoads>>
callVars == <<callArgs, callResult>>
uiVars   == <<cy, loadGroupCounter, activeNode, isProcessing, dbltapHandler,
              elementNodes, replaced, userEvents>>

(***************************************************************************)
(* Bounds                                                                  *)
(***************************************************************************)
MaxNodes == 5        \* longest node list given to buildDynamicHierarchy
MaxHidden == 1       \* largest hidden set given to buildDynamicHierarchy
MaxMaxDepth == 3     \* largest maxDepth argument tried
InitialNodeCount == 3 \* number of INITIAL_NODE_TEXTS entries kept (App.jsx has 15)
MaxSimNodes == 4     \* longest node list given to generateSimilarityEdges
MaxEdgesArg == 3     \* largest maxEdgesPerNode argument tried
MaxImportNodes == 2  \* most nodes in one graph document given to initFromData
MaxImportEdges == 2  \* most edges in one graph document given to initFromData
MaxWords == 2        \* most {word, relation} pairs in one LLM answer
MaxGmNodes == 3      \* no step is taken that could grow the node map past this
MaxCounter == 3      \* no step is taken that could push nextNodeId or nextEdgeId past this
MaxCallers == 3      \* callers of the embedding module that may be in flight together
MaxLoads == 2        \* no model load fails once this many loads have been started
MaxDim == 2          \* longest vector given to cosineSimilarity
MaxCoord == 4        \* largest absolute value of a vector entry given to cosineSimilarity
MaxText == 3         \* longest LLM response text, in tokens, given to parseJsonResponse
MaxCells == 4        \* most fields, over all data lines, of a CSV text given to csvToJsonForCytoscape
MaxFileLines == 2    \* most data lines of a CSV file loaded into main.js
MaxFileLoads == 2    \* most CSV files loaded between two clearGraph calls

(***************************************************************************)
(* Values                                                                  *)
(***************************************************************************)
Null == 0            \* null / falsy id of the MindmapJS app (ids start at 1)
NoTree == [none |-> TRUE]     \* hierarchy === null
NoVector == <<>>              \* node.vector missing (falsy)

\* Embedding vectors with integer magnitudes 1, 10, 2, 5.
\* cos(VA,VB) = 9/10, cos(VA,VC) = 1/2, cos(VA,VD) = 4/5,
\* cos(VB,VC) = 4/5,  cos(VB,VD) = 9/10, cos(VC,VD) = 7/10.
VA == <<1, 0, 0, 0>>
VB == <<9, 3, 3, 1>>
VC == <<1, 1, 1, 1>>
VD == <<4, 3, 0, 0>>
Vecs == {VA, VB, VC, VD}

\* Thresholds of the slider range of App.jsx (0.4 .. 0.9), as fractions:
\* 0.6 leaves out only the pair VA, VC; 0.8 is met exactly by VA, VD and by
\* VB, VC and leaves the pairs VA, VB and VB, VD (and equal vectors).
Frac(a, b) == [n |-> a, d |-> b]
Thresholds == {Frac(3, 5), Frac(4, 5)}
DefaultThreshold == Frac(3, 5)

\* fraction comparisons (denominators are positive)
FracGT(x, y) == x.n * y.d > y.n * x.d
FracGE(x, y) == x.n * y.d >= y.n * x.d
FracEQ(x, y) == x.n * y.d = y.n * x.d

Range(s) == {s[i] : i \in 1..Len(s)}

(***************************************************************************)
(* similarity.js                                                           *)
(***************************************************************************)
\* vec.reduce((sum, val, i) => sum + val * vec2[i], 0)
RECURSIVE DotProduct(_, _, _)
DotProduct(vec1, vec2, i) ==
  IF i > Len(vec1) THEN 0
  ELSE vec1[i] * vec2[i] + DotProduct(vec1, vec2, i + 1)

\* Math.sqrt on the sums of squares of the model's vectors (perfect squares)
Sqrt(x) == CHOOSE r \in 0..x : r * r = x

\* a length check that rejects only a longer first vector
LengthsDiffer_FirstLonger(vec1, vec2) == Len(vec1) > Len(vec2)

\* vec1.length !== vec2.length
LengthsDiffer(vec1, vec2) == Len(vec1) # Len(vec2)

\* cosineSimilarity without the `mag1 === 0 || mag2 === 0` guard: 0 / 0
cosineSimilarity_NoZeroGuard(vec1, vec2) ==
  IF vec1 = NoVector \/ vec2 = NoVector \/ LengthsDiffer(vec1, vec2)
  THEN Frac(0, 1)
  ELSE Frac(DotProduct(vec1, vec2, 1),
            Sqrt(DotProduct(vec1, vec1, 1)) * Sqrt(DotProduct(vec2, vec2, 1)))

cosineSimilarity(vec1, vec2) ==
  IF vec1 = NoVector \/ vec2 = NoVector \/ LengthsDiffer(vec1, vec2)
  THEN Frac(0, 1)
  ELSE LET dotProduct == DotProduct(vec1, vec2, 1)
           mag1 == Sqrt(DotProduct(vec1, vec1, 1))
           mag2 == Sqrt(DotProduct(vec2, vec2, 1))
       IN IF mag1 = 0 \/ mag2 = 0 THEN Frac(0, 1)
          ELSE Frac(dotProduct, mag1 * mag2)

\* Array.prototype.sort((a, b) => b.similarity - a.similarity): stable,
\* descending by similarity.  Insertion keeps equal keys in input order.
RECURSIVE InsertDesc_TiesReversed(_, _, _)
InsertDesc_TiesReversed(sorted, x, i) ==
  IF i > Len(sorted) THEN Append(sorted, x)
  ELSE IF FracGE(x.similarity, sorted[i].similarity)
       THEN SubSeq(sorted, 1, i - 1) \o <<x>> \o SubSeq(sorted, i, Len(sorted))
       ELSE InsertDesc_TiesReversed(sorted, x, i + 1)

RECURSIVE InsertDesc(_, _, _)
InsertDesc(sorted, x, i) ==
  IF i > Len(sorted) THEN Append(sorted, x)
  ELSE IF FracGT(x.similarity, sorted[i].similarity)
       THEN SubSeq(sorted, 1, i - 1) \o <<x>> \o SubSeq(sorted, i, Len(sorted))
       ELSE InsertDesc(sorted, x, i + 1)

RECURSIVE SortDescFrom(_, _, _)
SortDescFrom(s, i, acc) ==
  IF i > Len(s) THEN acc
  ELSE SortDescFrom(s, i + 1, InsertDesc(acc, s[i], 1))

SortBySimilarityDesc(s) == SortDescFrom(s, 1, <<>>)

\* Array.prototype.map(node => ({...node, similarity: cosineSimilarity(v, node.vector)}))
RECURSIVE WithSimilarity(_, _, _)
WithSimilarity(s, v, i) ==
  IF i > Len(s) THEN <<>>
  ELSE <<[id |-> s[i].id, vector |-> s[i].vector,
          similarity |-> cosineSimilarity(v, s[i].vector)]>>
       \o WithSimilarity(s, v, i + 1)

\* Array.prototype.slice(0, k)
Slice(s, k) == SubSeq(s, 1, IF Len(s) < k THEN Len(s) ELSE k)

\* Array.prototype.filter
RECURSIVE FilterSeq(_, _, _)
FilterSeq(s, keep(_), i) ==
  IF i > Len(s) THEN <<>>
  ELSE LET x == s[i]
       IN (IF keep(x) THEN <<x>> ELSE <<>>) \o FilterSeq(s, keep, i + 1)

\* Node ids of similarity.js are strings: sequences of character codes with
\* Dash < every letter, as '-' (45) is below the letters in UTF-16.
Dash == 0
IdA == <<1>>
IdB == <<2>>
IdC == <<3>>
IdAB == <<1, Dash, 2>>
IdBC == <<2, Dash, 3>>
IdAC == <<1, Dash, 3>>
IdD == <<4>>
SimIdPool == <<IdA, IdBC, IdAB, IdC, IdB, IdAC, IdD>>

\* string comparison by code units (the default comparator of Array.sort)
RECURSIVE StrLess(_, _, _)
StrLess(a, b, i) ==
  IF i > Len(a) THEN i <= Len(b)
  ELSE IF i > Len(b) THEN FALSE
  ELSE IF a[i] < b[i] THEN TRUE
  ELSE IF a[i] > b[i] THEN FALSE
  ELSE StrLess(a, b, i + 1)

\* part_001 line 114: [node.id, similar.id].sort().join('-')
EdgeKey_Directed(a, b) == a \o <<Dash>> \o b

EdgeKey(a, b) ==
  IF StrLess(b, a, 1) THEN b \o <<Dash>> \o a ELSE a \o <<Dash>> \o b

\* part_001 lines 55-71
findSimilarNodes(targetNode, allNodes, thr) ==
  IF targetNode.vector = NoVector THEN <<>>
  ELSE LET other(node) == node.id # targetNode.id /\ node.vector # NoVector
           pool == FilterSeq(allNodes, other, 1)
           withSim == WithSimilarity(pool, targetNode.vector, 1)
           atLeast(node) == FracGE(node.similarity, thr)
       IN SortBySimilarityDesc(FilterSeq(withSim, atLeast, 1))

\* part_001 line 121: (similar.similarity * 100).toFixed(1), in tenths of a
\* percent
RelationTenths(sim) == (sim.n * 1000) \div sim.d

\* part_001 lines 112-125: the inner loop over topSimilar; acc carries the
\* edge list and the edgeSet
RECURSIVE AddTopSimilar(_, _, _, _)
AddTopSimilar(node, topSimilar, i, acc) ==
  IF i > Len(topSimilar) THEN acc
  ELSE LET similar == topSimilar[i]
           edgeKey == EdgeKey(node.id, similar.id)
       IN AddTopSimilar(node, topSimilar, i + 1,
            IF edgeKey \notin acc.edgeSet
            THEN [edges |-> Append(acc.edges,
                               [source |-> node.id, target |-> similar.id,
                                similarity |-> similar.similarity,
                                relation |-> RelationTenths(similar.similarity)]),
                  edgeSet |-> acc.edgeSet \cup {edgeKey}]
            ELSE acc)

\* part_001 lines 106-126: the outer loop over nodes
RECURSIVE EdgesFrom(_, _, _, _, _)
EdgesFrom(ns, i, thr, maxEdges, acc) ==
  IF i > Len(ns) THEN acc
  ELSE IF ns[i].vector = NoVector THEN EdgesFrom(ns, i + 1, thr, maxEdges, acc)
  ELSE EdgesFrom(ns, i + 1, thr, maxEdges,
         AddTopSimilar(ns[i], Slice(findSimilarNodes(ns[i], ns, thr), maxEdges), 1, acc))

\* part_001 lines 102-129
generateSimilarityEdges(ns, thr, maxEdges) ==
  EdgesFrom(ns, 1, thr, maxEdges, [edges |-> <<>>, edgeSet |-> {}]).edges

(***************************************************************************)
(* hierarchy.js                                                            *)
(***************************************************************************)
BranchCap == 3

\* lines 30-38: the candidates of one parent
Candidates_NoSlice(parentNode, used, allNodes, hidden, thr) ==
  LET unused(node) == node.id \notin used /\ node.id \notin hidden
      pool == FilterSeq(allNodes, unused, 1)
      withSim == WithSimilarity(pool, parentNode.vector, 1)
      above(node) == FracGT(node.similarity, thr)
  IN SortBySimilarityDesc(FilterSeq(withSim, above, 1))

Candidates_NotStrict(parentNode, used, allNodes, hidden, thr) ==
  LET unused(node) == node.id \notin used /\ node.id \notin hidden
      pool == FilterSeq(allNodes, unused, 1)
      withSim == WithSimilarity(pool, parentNode.vector, 1)
      above(node) == FracGE(node.similarity, thr)
  IN Slice(SortBySimilarityDesc(FilterSeq(withSim, above, 1)), BranchCap)

Candidates(parentNode, used, allNodes, hidden, thr) ==
  LET unused(node) == node.id \notin used /\ node.id \notin hidden
      pool == FilterSeq(allNodes, unused, 1)
      withSim == WithSimilarity(pool, parentNode.vector, 1)
      above(node) == FracGT(node.similarity, thr)
  IN Slice(SortBySimilarityDesc(FilterSeq(withSim, above, 1)), BranchCap)

\* line 41: candidates.forEach(node => used.add(node.id))
MarkUsed_Skip(used, candidates) == used

MarkUsed(used, candidates) == used \cup {candidates[i].id : i \in 1..Len(candidates)}

\* line 25: if (currentDepth >= maxDepth) return []
DepthReached_OffByOne(currentDepth, maxD) == currentDepth > maxD

DepthReached(currentDepth, maxD) == currentDepth >= maxD

\* lines 24-49.  The closure's `used` set is threaded through the recursion:
\* the result carries the children and the set as it is when the call returns.
RECURSIVE buildLevel(_, _, _, _, _, _, _)
RECURSIVE BuildChildren(_, _, _, _, _, _, _, _, _)

buildLevel(parentNode, currentDepth, used, allNodes, hidden, maxD, thr) ==
  IF DepthReached(currentDepth, maxD)
  THEN [children |-> <<>>, used |-> used]
  ELSE LET candidates == Candidates(parentNode, used, allNodes, hidden, thr)
       IN BuildChildren(candidates, 1, <<>>, currentDepth,
                        MarkUsed(used, candidates), allNodes, hidden, maxD, thr)

\* lines 44-48: candidates.map(child => ({...child, depth, children}))
BuildChildren(candidates, i, acc, currentDepth, used, allNodes, hidden, maxD, thr) ==
  IF i > Len(candidates) THEN [children |-> acc, used |-> used]
  ELSE LET sub == buildLevel(candidates[i], currentDepth + 1, used,
                             allNodes, hidden, maxD, thr)
           child == [id |-> candidates[i].id,
                     vector |-> candidates[i].vector,
                     similarity |-> candidates[i].similarity,
                     depth |-> currentDepth + 1,
                     children |-> sub.children]
       IN BuildChildren(candidates, i + 1, Append(acc, child), currentDepth,
                        sub.used, allNodes, hidden, maxD, thr)

\* lines 13-64
buildDynamicHierarchy(rootNode, allNodes, hidden, maxD, thr) ==
  [id |-> rootNode.id,
   vector |-> rootNode.vector,
   depth |-> 0,
   children |-> buildLevel(rootNode, 0, {rootNode.id}, allNodes, hidden,
                           maxD, thr).children]

\* App.jsx line 73: nodes.find(n => n.id === id); NoNode when nothing matches
NoNode == [id |-> Null, vector |-> NoVector]
FindNode(ns, id) ==
  IF \E k \in 1..Len(ns) : ns[k].id = id
  THEN ns[CHOOSE k \in 1..Len(ns) :
            ns[k].id = id /\ \A j \in 1..(k - 1) : ns[j].id # id]
  ELSE NoNode

(***************************************************************************)
(* graphManager.js                                                         *)
(***************************************************************************)
\* Ids.  <<"num", k>> is the number k, <<"str", k>> the string "k",
\* <<"gen", k>> the string `node_${k}`; NoId is undefined / null.
NoId == <<"none", 0>>
NumId(k) == <<"num", k>>
StrId(k) == <<"str", k>>
GenId(k) == <<"gen", k>>

\* String(id)
String(id) == IF id[1] = "num" THEN StrId(id[2]) ELSE id

\* Labels are <<word, upper>>: a word in lower case or with capitals.
toLowerCase(label) == <<label[1], FALSE>>

\* the empty string as a label, and the text of an id used as a label
EmptyLabel == <<0, FALSE>>
IdAsLabel(id) ==
  <<(CASE id[1] = "str" -> 10 [] id[1] = "gen" -> 20 [] OTHER -> 30) + id[2], FALSE>>

\* an edge relation that is undefined
NoRelation == "undefined"

\* a field that the document's node or edge does not have is undefined
Has(obj, field) == field \in DOMAIN obj

\* getBatchEmbeddings: the vector of a text
EmbeddingOf(label) ==
  CASE label[1] = 1 -> VA
    [] label[1] = 2 -> VB
    [] label[1] = 3 -> VC
    [] OTHER -> VD

NoNodeGM == [id |-> NoId]
NoEdge == [id |-> 0]

\* The two Maps and the two counters of a GraphManager, with the keys whose
\* node object was replaced or removed (held references go stale).
GraphOf(ns, es, nn, ne) ==
  [nodes |-> ns, edges |-> es, nextNodeId |-> nn, nextEdgeId |-> ne, stale |-> {}]

\* Map.prototype.get on this.nodes
MapGet(ns, key) ==
  IF \E i \in 1..Len(ns) : ns[i].id = key
  THEN ns[CHOOSE i \in 1..Len(ns) : ns[i].id = key]
  ELSE NoNodeGM

\* Map.prototype.set on this.nodes: an existing key keeps its position
MapSet(ns, key, node) ==
  IF \E i \in 1..Len(ns) : ns[i].id = key
  THEN [ns EXCEPT ![CHOOSE i \in 1..Len(ns) : ns[i].id = key] = node]
  ELSE Append(ns, node)

\* lines 153-155
getNode(ns, id) == MapGet(ns, String(id))

\* findEdge that looks for the edge in the requested direction only
findEdge_OneDirection(es, source, target) ==
  LET hit == {i \in 1..Len(es) :
                es[i].source = String(source) /\ es[i].target = String(target)}
  IN IF hit = {} THEN NoEdge
     ELSE es[CHOOSE i \in hit : \A j \in hit : i <= j]

\* lines 139-147
findEdge(es, source, target) ==
  LET hit == {i \in 1..Len(es) :
                \/ (es[i].source = String(source) /\ es[i].target = String(target))
                \/ (es[i].source = String(target) /\ es[i].target = String(source))}
  IN IF hit = {} THEN NoEdge
     ELSE es[CHOOSE i \in hit : \A j \in hit : i <= j]

\* lines 399-407
findNodeByLabel(ns, label) ==
  LET hit == {i \in 1..Len(ns) : toLowerCase(ns[i].label) = toLowerCase(label)}
  IN IF hit = {} THEN NoNodeGM
     ELSE ns[CHOOSE i \in hit : \A j \in hit : i <= j]

\* lines 88-106; nodeData.id = NoId when the caller gives no id
NewNodeId(G, nodeData) ==
  IF nodeData.id # NoId THEN nodeData.id ELSE GenId(G.nextNodeId)

addNode(G, nodeData) ==
  LET id == NewNodeId(G, nodeData)
      node == [id |-> id,
               label |-> nodeData.label,
               depth |-> nodeData.depth,
               vector |-> nodeData.vector,
               visible |-> nodeData.visible,
               expanded |-> nodeData.expanded,
               llmGenerated |-> nodeData.llmGenerated]
  IN [G EXCEPT !.nodes = MapSet(@, id, node),
               !.nextNodeId = IF nodeData.id # NoId THEN @ ELSE @ + 1,
               !.stale = IF MapGet(G.nodes, id) # NoNodeGM THEN @ \cup {id} ELSE @]

\* lines 113-134.  The spread ...edgeData comes last in the literal, so the
\* stored source and target are the values as given, not their String().
addEdge(G, edgeData) ==
  LET id == G.nextEdgeId
      G1 == [G EXCEPT !.nextEdgeId = @ + 1]
  IN IF findEdge(G.edges, edgeData.source, edgeData.target) # NoEdge
     THEN G1
     ELSE [G1 EXCEPT !.edges = Append(@, [id |-> id,
                                          source |-> edgeData.source,
                                          target |-> edgeData.target,
                                          relation |-> edgeData.relation])]

\* lines 57-66: graphData.nodes.forEach(addNode)
RECURSIVE AddImportNodes(_, _, _)
AddImportNodes(G, ns, i) ==
  IF i > Len(ns) THEN G
  ELSE LET node == ns[i]
           \* node.label || node.id
           label == IF Has(node, "label") /\ node.label # EmptyLabel
                    THEN node.label ELSE IdAsLabel(node.id)
       IN AddImportNodes(
            addNode(G, [id |-> node.id,
                        label |-> label,
                        \* node.depth || 0
                        depth |-> IF Has(node, "depth") THEN node.depth ELSE 0,
                        vector |-> EmbeddingOf(label),
                        \* node.visible !== false
                        visible |-> ~(Has(node, "visible") /\ node.visible = FALSE),
                        \* node.expanded || false
                        expanded |-> Has(node, "expanded") /\ node.expanded,
                        llmGenerated |-> FALSE]),
            ns, i + 1)

\* lines 70-78: graphData.edges.forEach(addEdge)
RECURSIVE AddImportEdges(_, _, _)
AddImportEdges(G, es, i) ==
  IF i > Len(es) THEN G
  ELSE AddImportEdges(
         addEdge(G, [source |-> es[i].source, target |-> es[i].target,
                     \* edge.relation || ''
                     relation |-> IF Has(es[i], "relation") /\ es[i].relation # NoRelation
                                  THEN es[i].relation ELSE ""]),
         es, i + 1)

\* lines 46-81
initFromData(G, graphData) ==
  AddImportEdges(AddImportNodes(G, graphData.nodes, 1), graphData.edges, 1)

\* lines 272-306 (generateRelatedNodes) and 357-387 (deepDiveNode): the loop
\* over the words.  parentId is NoId when generateRelatedNodes has no parent;
\* deepDiveNode always has its nodeId.
RECURSIVE AddWords(_, _, _, _, _)
AddWords(G, words, i, parentId, newDepth) ==
  IF i > Len(words) THEN G
  ELSE LET word == words[i].word
           relation == words[i].relation
           existingNode == findNodeByLabel(G.nodes, word)
       IN IF existingNode # NoNodeGM
          THEN AddWords(
                 IF parentId # NoId /\ findEdge(G.edges, parentId, existingNode.id) = NoEdge
                 THEN addEdge(G, [source |-> parentId, target |-> existingNode.id,
                                  relation |-> relation])
                 ELSE G,
                 words, i + 1, parentId, newDepth)
          ELSE LET nodeData == [id |-> NoId, label |-> word, depth |-> newDepth,
                                vector |-> EmbeddingOf(word), visible |-> TRUE,
                                expanded |-> FALSE, llmGenerated |-> TRUE]
                   G1 == addNode(G, nodeData)
               IN AddWords(
                    IF parentId # NoId
                    THEN addEdge(G1, [source |-> parentId,
                                      target |-> NewNodeId(G, nodeData),
                                      relation |-> relation])
                    ELSE G1,
                    words, i + 1, parentId, newDepth)

\* lines 434-447
deleteNode(G, nodeId) ==
  IF MapGet(G.nodes, String(nodeId)) = NoNodeGM THEN G
  ELSE LET keepEdge(e) == ~(e.source = String(nodeId) \/ e.target = String(nodeId))
           keepNode(n) == n.id # String(nodeId)
       IN [G EXCEPT !.edges = FilterSeq(@, keepEdge, 1),
                    !.nodes = FilterSeq(@, keepNode, 1),
                    !.stale = @ \cup {String(nodeId)}]

\* In-flight calls.  A call holds what its local variables hold across the
\* awaits: its argument, the words, the parent depth, and for deepDiveNode
\* the node object (its depth, and whether the Map still holds that object).
Slots == {1, 2}
IdleTask == [pc |-> "idle", kind |-> "none", arg |-> NoId, words |-> <<>>,
             depth |-> 0, held |-> FALSE]

(***************************************************************************)
(* Idle values of the parts a specification does not exercise              *)
(***************************************************************************)
SimIdle == /\ simNodes = <<>>
           /\ simThreshold = Frac(7, 10)
           /\ maxEdgesPerNode = 3
           /\ simEdges = [done |-> FALSE, edges |-> <<>>]

GmIdle == /\ gmNodes = <<>>
          /\ gmEdges = <<>>
          /\ nextNodeId = 1
          /\ nextEdgeId = 1
          /\ tasks = [s \in Slots |-> IdleTask]

NoCall == [fn |-> "none"]

EmbIdle == /\ embedder = FALSE
           /\ embIsLoading = FALSE
           /\ loadPromise = "null"
           /\ embCalls = <<>>
           /\ pipelineLoads = 0

CallIdle == /\ callArgs = NoCall
            /\ callResult = NoCall

\* main.js before any file is loaded (`let cy;` is undefined), and the
\* llm-dynamic-mindmap App before CytoscapeGraph is mounted
NoCy == [nodes |-> <<>>, edges |-> <<>>, alive |-> FALSE]
NoHandler == [mounted |-> FALSE, isProcessing |-> FALSE, graphManager |-> 0]
UiIdle == /\ cy = NoCy
          /\ loadGroupCounter = 0
          /\ activeNode = NoId
          /\ isProcessing = FALSE
          /\ dbltapHandler = NoHandler
          /\ elementNodes = {}
          /\ replaced = <<>>
          /\ userEvents = 0

HierIdle == /\ nodes = <<>>
            /\ rootNodeId = Null
            /\ selectedNodeId = Null
            /\ hiddenIds = {}
            /\ threshold = DefaultThreshold
            /\ maxDepth = 3
            /\ hierarchy = NoTree
            /\ isLoading = TRUE

(***************************************************************************)
(* SpecHier: buildDynamicHierarchy applied to bounded inputs               *)
(***************************************************************************)
\* node lists with unique ids (the id is the position in the list)
NodeLists(maxLen) ==
  UNION {{[i \in 1..n |-> [id |-> i, vector |-> vs[i]]] : vs \in [1..n -> Vecs]}
         : n \in 1..maxLen}

\* hidden sets tried: the subsets of the ids that follow the root in the list
HiddenSets(ns) ==
  SUBSET {ns[k].id : k \in {k \in 2..Len(ns) : k <= MaxHidden + 1}}

\* the node list and the root are fixed first; the call draws the remaining
\* arguments
InitHier ==
  /\ nodes \in NodeLists(MaxNodes)
  /\ rootNodeId = nodes[1].id
  /\ hiddenIds = {}
  /\ maxDepth = 3
  /\ threshold = DefaultThreshold
  /\ selectedNodeId = Null
  /\ hierarchy = NoTree
  /\ isLoading = FALSE
  /\ SimIdle /\ GmIdle /\ EmbIdle /\ UiIdle /\ CallIdle

BuildHierarchy ==
  /\ hierarchy = NoTree
  /\ \E hidden \in HiddenSets(nodes), maxD \in 0..MaxMaxDepth, thr \in Thresholds :
       /\ hiddenIds' = hidden
       /\ maxDepth' = maxD
       /\ threshold' = thr
       /\ hierarchy' = buildDynamicHierarchy(FindNode(nodes, rootNodeId), nodes,
                                             hidden, maxD, thr)
  /\ UNCHANGED <<nodes, rootNodeId, selectedNodeId, isLoading, simVars, gmVars, embVars, callVars, uiVars>>

NextHier == BuildHierarchy

SpecHier == InitHier /\ [][NextHier]_vars

(***************************************************************************)
(* Reading a returned tree                                                 *)
(***************************************************************************)
\* The placements of a tree in preorder: one entry per node, with its parent.
RECURSIVE ChildIds(_, _)
ChildIds(children, i) ==
  IF i > Len(children) THEN <<>>
  ELSE <<children[i].id>> \o ChildIds(children, i + 1)

RECURSIVE Placements(_, _, _)
RECURSIVE PlacementsOfAll(_, _, _)

Placements(node, parent, isRoot) ==
  <<[id |-> node.id, vector |-> node.vector, depth |-> node.depth,
     isRoot |-> isRoot,
     similarity |-> IF isRoot THEN Frac(0, 1) ELSE node.similarity,
     parentId |-> IF isRoot THEN Null ELSE parent.id,
     parentVector |-> IF isRoot THEN NoVector ELSE parent.vector,
     parentDepth |-> IF isRoot THEN 0 - 1 ELSE parent.depth,
     childIds |-> ChildIds(node.children, 1)]>>
  \o PlacementsOfAll(node.children, node, 1)

PlacementsOfAll(children, parent, i) ==
  IF i > Len(children) THEN <<>>
  ELSE Placements(children[i], parent, FALSE)
       \o PlacementsOfAll(children, parent, i + 1)

Built == hierarchy # NoTree
Placed == IF Built THEN Placements(hierarchy, hierarchy, TRUE) ELSE <<>>
IdsOf(P) == {P[i].id : i \in 1..Len(P)}

\* position of id x in the preorder list P (0 when absent)
PosOf(P, x) == IF x \in IdsOf(P)
               THEN CHOOSE i \in 1..Len(P) : P[i].id = x
               ELSE 0

\* C1: the tree returned by buildDynamicHierarchy holds every node id at most
\* once: no node sits under two parents and the root is never a descendant.
C1_NoDuplicatePlacement ==
  LET P == Placed
  IN Built => \A i, j \in 1..Len(P) : i # j => P[i].id # P[j].id

\* a tree of depth 2 whose grandchild was also above the threshold for the root
C1_Witness ==
  LET P == Placed
  IN /\ Built
     /\ \E i \in 1..Len(P) :
          /\ P[i].depth = 2
          /\ FracGT(cosineSimilarity(hierarchy.vector, P[i].vector), threshold)
          /\ FracGT(cosineSimilarity(P[i].vector, P[i].parentVector), threshold)

\* C2: every node of the returned tree, the root included, has at most 3
\* children.
C2_BranchingCap ==
  LET P == Placed
  IN Built => \A i \in 1..Len(P) : Len(P[i].childIds) <= 3

\* the root had four or more candidates above the threshold and kept three
C2_Witness ==
  /\ Built
  /\ Len(hierarchy.children) = 3
  /\ Cardinality({k \in 1..Len(nodes) :
        /\ nodes[k].id # hierarchy.id
        /\ nodes[k].id \notin hiddenIds
        /\ FracGT(cosineSimilarity(hierarchy.vector, nodes[k].vector), threshold)}) >= 4

\* C3: the root has depth 0, a child's depth is its parent's depth plus 1, no
\* depth exceeds maxDepth, and with maxDepth = 0 the tree is the root alone.
C3_Depths ==
  LET P == Placed
  IN Built =>
       /\ hierarchy.depth = 0
       /\ \A i \in 1..Len(P) :
            /\ ~P[i].isRoot => P[i].depth = P[i].parentDepth + 1
            /\ P[i].depth <= maxDepth
       /\ (maxDepth = 0 => hierarchy.children = <<>>)

\* a leaf at depth maxDepth that still had an unused candidate above the
\* threshold: only the depth bound stopped the recursion
C3_Witness ==
  LET P == Placed
      ids == IdsOf(P)
  IN /\ Built
     /\ maxDepth >= 1
     /\ \E i \in 1..Len(P) :
          /\ P[i].depth = maxDepth
          /\ \E k \in 1..Len(nodes) :
               /\ nodes[k].id \notin ids
               /\ nodes[k].id \notin hiddenIds
               /\ FracGT(cosineSimilarity(P[i].vector, nodes[k].vector), threshold)

\* C4: every non-root node of the tree has cosine similarity to its parent
\* strictly greater than the threshold (equal to the threshold is not placed).
C4_StrictlyAboveThreshold ==
  LET P == Placed
  IN Built => \A i \in 1..Len(P) :
       ~P[i].isRoot =>
         /\ FracGT(cosineSimilarity(P[i].parentVector, P[i].vector), threshold)
         /\ FracEQ(P[i].similarity,
                   cosineSimilarity(P[i].parentVector, P[i].vector))

\* a visible node whose similarity to the root equals the threshold exactly,
\* left out of a tree that has room under the root
C4_Witness ==
  LET ids == IdsOf(Placed)
  IN /\ Built
     /\ maxDepth >= 1
     /\ Len(hierarchy.children) < 3
     /\ \E k \in 1..Len(nodes) :
          /\ nodes[k].id # hierarchy.id
          /\ nodes[k].id \notin hiddenIds
          /\ nodes[k].id \notin ids
          /\ FracEQ(cosineSimilarity(hierarchy.vector, nodes[k].vector), threshold)

\* The ids that are used at the moment the node at preorder position p is
\* expanded: the root, and every node whose parent was expanded before.
RECURSIVE UsedWhenExpanding(_, _, _)
UsedWhenExpanding(P, p, j) ==
  IF j > Len(P) THEN {P[1].id}
  ELSE (IF ~P[j].isRoot /\ PosOf(P, P[j].parentId) < p THEN {P[j].id} ELSE {})
       \cup UsedWhenExpanding(P, p, j + 1)

\* index of id x in the input list
InputIndex(x) == CHOOSE k \in 1..Len(nodes) : nodes[k].id = x

\* with sims[k] the similarity of input node k to the parent, candidate a
\* ranks before candidate b
RanksBefore(sims, a, b) ==
  \/ FracGT(sims[a].similarity, sims[b].similarity)
  \/ (FracEQ(sims[a].similarity, sims[b].similarity) /\ a < b)

\* C5: when a parent is expanded its children are exactly the up-to-3
\* highest-similarity nodes among those then unused, not hidden and above the
\* threshold, in descending similarity, ties in input order.
C5_TopThreeInOrder ==
  LET P == Placed
  IN Built => \A p \in 1..Len(P) :
       P[p].depth < maxDepth =>
         LET usedNow == UsedWhenExpanding(P, p, 1)
             sims == WithSimilarity(nodes, P[p].vector, 1)
             eligible == {k \in 1..Len(nodes) :
                            /\ nodes[k].id \notin usedNow
                            /\ nodes[k].id \notin hiddenIds
                            /\ FracGT(sims[k].similarity, threshold)}
             kids == P[p].childIds
             chosen == {InputIndex(kids[c]) : c \in 1..Len(kids)}
         IN /\ Len(kids) = (IF Cardinality(eligible) < 3 THEN Cardinality(eligible) ELSE 3)
            /\ chosen \subseteq eligible
            /\ \A c \in chosen : \A e \in eligible \ chosen : RanksBefore(sims, c, e)
            /\ \A c, d \in 1..Len(kids) :
                 c < d => RanksBefore(sims, InputIndex(kids[c]), InputIndex(kids[d]))

\* the example of the specification, in input order A, B, C, D: under root A
\* (similarities B 0.9, C 0.5, D 0.8, threshold 0.6) the children are B then D
C5_Witness ==
  /\ Built
  /\ nodes = <<[id |-> 1, vector |-> VA], [id |-> 2, vector |-> VB],
               [id |-> 3, vector |-> VC], [id |-> 4, vector |-> VD]>>
  /\ rootNodeId = 1 /\ hiddenIds = {} /\ threshold = Frac(3, 5) /\ maxDepth = 1
  /\ ChildIds(hierarchy.children, 1) = <<2, 4>>

(***************************************************************************)
(* SpecApp: the MindmapJS App (App.jsx) driving buildDynamicHierarchy      *)
(***************************************************************************)
AppMaxDepth == 3     \* App.jsx line 76: buildDynamicHierarchy(..., 3, threshold)

\* lines 70-77: the hierarchy memo
HierarchyMemo(ns, rootId, hidden, thr) ==
  IF Len(ns) = 0 \/ rootId = Null THEN NoTree
  ELSE IF FindNode(ns, rootId) = NoNode THEN NoTree
  ELSE buildDynamicHierarchy(FindNode(ns, rootId), ns, hidden, AppMaxDepth, thr)

InitApp ==
  /\ HierIdle
  /\ SimIdle /\ GmIdle /\ EmbIdle /\ UiIdle /\ CallIdle

\* lines 37-67: the initial embeddings arrive, ids are i + 1, the first node
\* becomes the root
Initialize ==
  /\ isLoading
  /\ \E vs \in [1..InitialNodeCount -> Vecs] :
       nodes' = [i \in 1..InitialNodeCount |-> [id |-> i, vector |-> vs[i]]]
  /\ rootNodeId' = 1
  /\ isLoading' = FALSE
  /\ hierarchy' = HierarchyMemo(nodes', rootNodeId', hiddenIds, threshold)
  /\ UNCHANGED <<selectedNodeId, hiddenIds, threshold, maxDepth, simVars, gmVars, embVars, callVars, uiVars>>

\* lines 86-89; the id comes from a tap on a rendered node (CytoscapeGraph.jsx
\* 110-117), from the list of visible nodes (App.jsx 264-267) or is null for a
\* tap on the background (CytoscapeGraph.jsx 120-127)
handleNodeClick ==
  /\ ~isLoading
  /\ \E nodeId \in IdsOf(Placed)
                   \cup {nodes[k].id : k \in {k \in 1..Len(nodes) : nodes[k].id \notin hiddenIds}}
                   \cup {Null} :
       /\ nodeId # selectedNodeId
       /\ selectedNodeId' = nodeId
  /\ UNCHANGED <<nodes, rootNodeId, hiddenIds, threshold, maxDepth, hierarchy,
                 isLoading, simVars, gmVars, embVars, callVars, uiVars>>

\* lines 92-97
handleSetAsRoot ==
  /\ ~isLoading
  /\ selectedNodeId # Null
  /\ rootNodeId' = selectedNodeId
  /\ hierarchy' = HierarchyMemo(nodes, rootNodeId', hiddenIds, threshold)
  /\ UNCHANGED <<nodes, selectedNodeId, hiddenIds, threshold, maxDepth,
                 isLoading, simVars, gmVars, embVars, callVars, uiVars>>

\* lines 100-107
handleHide ==
  /\ ~isLoading
  /\ selectedNodeId # Null
  /\ hiddenIds' = hiddenIds \cup {selectedNodeId}
  /\ selectedNodeId' = Null
  /\ hierarchy' = HierarchyMemo(nodes, rootNodeId, hiddenIds', threshold)
  /\ UNCHANGED <<nodes, rootNodeId, threshold, maxDepth, isLoading, simVars, gmVars, embVars, callVars, uiVars>>

\* lines 110-128, the confirm() dialog accepted
handleDelete ==
  /\ ~isLoading
  /\ selectedNodeId # Null
  /\ LET keep(n) == n.id # selectedNodeId
         remainingNodes == FilterSeq(nodes, keep, 1)
     IN /\ nodes' = remainingNodes
        /\ rootNodeId' = IF rootNodeId = selectedNodeId /\ Len(remainingNodes) > 0
                         THEN remainingNodes[1].id
                         ELSE rootNodeId
  /\ selectedNodeId' = Null
  /\ hierarchy' = HierarchyMemo(nodes', rootNodeId', hiddenIds, threshold)
  /\ UNCHANGED <<hiddenIds, threshold, maxDepth, isLoading, simVars, gmVars, embVars, callVars, uiVars>>

\* lines 131-134 (the button is rendered while hiddenIds.size > 0)
handleUnhideAll ==
  /\ ~isLoading
  /\ hiddenIds # {}
  /\ hiddenIds' = {}
  /\ hierarchy' = HierarchyMemo(nodes, rootNodeId, hiddenIds', threshold)
  /\ UNCHANGED <<nodes, rootNodeId, selectedNodeId, threshold, maxDepth,
                 isLoading, simVars, gmVars, embVars, callVars, uiVars>>

\* lines 195-203: the threshold slider
setThreshold ==
  /\ ~isLoading
  /\ \E t \in Thresholds :
       /\ t # threshold
       /\ threshold' = t
  /\ hierarchy' = HierarchyMemo(nodes, rootNodeId, hiddenIds, threshold')
  /\ UNCHANGED <<nodes, rootNodeId, selectedNodeId, hiddenIds, maxDepth,
                 isLoading, simVars, gmVars, embVars, callVars, uiVars>>

NextApp ==
  \/ Initialize
  \/ handleNodeClick
  \/ handleSetAsRoot
  \/ handleHide
  \/ handleDelete
  \/ handleUnhideAll
  \/ setThreshold

SpecApp == InitApp /\ [][NextApp]_vars

\* C6: no node whose id is in the hidden set appears anywhere in the hierarchy
\* that is built for rendering.
C6_HiddenNotInHierarchy ==
  LET P == Placed
  IN Built => \A i \in 1..Len(P) : P[i].id \notin hiddenIds

(***************************************************************************)
(* SpecSim: generateSimilarityEdges applied to bounded inputs              *)
(***************************************************************************)
SimNodeLists(maxLen) ==
  UNION {{[i \in 1..n |-> [id |-> SimIdPool[i], vector |-> vs[i]]]
          : vs \in [1..n -> Vecs \cup {NoVector}]}
         : n \in 1..maxLen}

InitSim ==
  /\ simNodes \in SimNodeLists(MaxSimNodes)
  /\ simThreshold = Frac(7, 10)
  /\ maxEdgesPerNode = 3
  /\ simEdges = [done |-> FALSE, edges |-> <<>>]
  /\ HierIdle /\ GmIdle /\ EmbIdle /\ UiIdle /\ CallIdle

GenerateEdges ==
  /\ ~simEdges.done
  /\ \E thr \in Thresholds, maxEdges \in 1..MaxEdgesArg :
       /\ simThreshold' = thr
       /\ maxEdgesPerNode' = maxEdges
       /\ simEdges' = [done |-> TRUE,
                       edges |-> generateSimilarityEdges(simNodes, thr, maxEdges)]
  /\ UNCHANGED <<simNodes, hierVars, gmVars, embVars, callVars, uiVars>>

NextSim == GenerateEdges

SpecSim == InitSim /\ [][NextSim]_vars

\* C7: the edge list returned by generateSimilarityEdges never holds two edges
\* joining the same unordered pair of nodes (neither A-B twice nor A-B and B-A).
C7_NoDuplicatePair ==
  LET E == simEdges.edges
  IN \A i, j \in 1..Len(E) :
       i # j => {E[i].source, E[i].target} # {E[j].source, E[j].target}

\* two nodes each have the other among their top similar nodes, so the second
\* request for the pair was met by the edgeSet
C7_Witness ==
  /\ simEdges.done
  /\ \E x, y \in 1..Len(simNodes) :
       /\ x < y
       /\ simNodes[x].vector # NoVector
       /\ simNodes[y].vector # NoVector
       /\ simNodes[y].id \in
            {n.id : n \in Range(Slice(findSimilarNodes(simNodes[x], simNodes,
                                        simThreshold), maxEdgesPerNode))}
       /\ simNodes[x].id \in
            {n.id : n \in Range(Slice(findSimilarNodes(simNodes[y], simNodes,
                                        simThreshold), maxEdgesPerNode))}
       /\ \E i \in 1..Len(simEdges.edges) :
            /\ simEdges.edges[i].source = simNodes[x].id
            /\ simEdges.edges[i].target = simNodes[y].id

\* C8: in the returned edge list every node has at most maxEdgesPerNode edges,
\* counting the edges in which it is either endpoint.
C8_EdgeCapPerNode ==
  LET E == simEdges.edges
  IN \A k \in 1..Len(simNodes) :
       Cardinality({i \in 1..Len(E) :
          E[i].source = simNodes[k].id \/ E[i].target = simNodes[k].id})
       <= maxEdgesPerNode

(***************************************************************************)
(* Specification SpecGM: one GraphManager, its calls made one at a time    *)
(***************************************************************************)
G == GraphOf(gmNodes, gmEdges, nextNodeId, nextEdgeId)

\* Graph documents: ids all numbers, all strings, or all of the form node_k
IdSchemes == {"num", "str", "gen"}

ImportNodes(scheme, k) ==
  [i \in 1..k |-> [id |-> <<scheme, i>>, label |-> <<i, FALSE>>, depth |-> i - 1,
                   visible |-> TRUE, expanded |-> FALSE]]

\* an id as it is held, or as Cytoscape hands it back (a string)
IdForms(ns) == {ns[i].id : i \in 1..Len(ns)} \cup {String(ns[i].id) : i \in 1..Len(ns)}

\* an edge of a document joins two different nodes of the document, named
\* as the document names them
ImportEdge(ns) ==
  {e \in [source : {n.id : n \in Range(ns)}, target : {n.id : n \in Range(ns)},
          relation : {"r"}] : e.source # e.target}

SeqsUpTo(S, n) == UNION {[1..m -> S] : m \in 0..n}

GraphDocs ==
  UNION {{[nodes |-> ImportNodes(scheme, k), edges |-> es] :
            es \in SeqsUpTo(ImportEdge(ImportNodes(scheme, k)), MaxImportEdges)} :
         scheme \in IdSchemes, k \in 1..MaxImportNodes}

\* What the LLM may answer: a known word capitalised, a new word, the new
\* word capitalised
WordChoices == {<<1, TRUE>>, <<3, FALSE>>, <<3, TRUE>>}
LlmAnswers == SeqsUpTo({[word |-> w, relation |-> "related"] : w \in WordChoices}, MaxWords)

AllIdle == \A s \in Slots : tasks[s].pc = "idle"
FreeSlot == CHOOSE s \in Slots : tasks[s].pc = "idle" /\ \A t \in Slots : tasks[t].pc = "idle" => s <= t

\* references held by calls in flight to node objects no longer in the Map
Release(ts, stale) ==
  [s \in Slots |-> IF ts[s].held /\ String(ts[s].arg) \in stale
                   THEN [ts[s] EXCEPT !.held = FALSE] ELSE ts[s]]

Install(G1, ts) ==
  /\ gmNodes' = G1.nodes
  /\ gmEdges' = G1.edges
  /\ nextNodeId' = G1.nextNodeId
  /\ nextEdgeId' = G1.nextEdgeId
  /\ tasks' = Release(ts, G1.stale)

InitGM == HierIdle /\ SimIdle /\ GmIdle /\ EmbIdle /\ UiIdle /\ CallIdle

\* lines 46-81
\* (the application gives each document to a new GraphManager)
InitFromData ==
  /\ AllIdle
  /\ G = GraphOf(<<>>, <<>>, 1, 1)
  /\ \E graphData \in GraphDocs :
       /\ Len(graphData.nodes) <= MaxGmNodes
       /\ nextEdgeId + Len(graphData.edges) <= MaxCounter + 1
       /\ Install(initFromData(G, graphData), tasks)
  /\ UNCHANGED <<hierVars, simVars, embVars, callVars, uiVars>>

\* lines 113-134, called from outside with the ids of two nodes
AddEdge ==
  /\ AllIdle
  /\ nextEdgeId <= MaxCounter
  /\ \E x, y \in Range(gmNodes), asString \in BOOLEAN :
       /\ x # y
       /\ Install(addEdge(G, [source |-> IF asString THEN String(x.id) ELSE x.id,
                               target |-> IF asString THEN String(y.id) ELSE y.id,
                               relation |-> "r"]), tasks)
  /\ UNCHANGED <<hierVars, simVars, embVars, callVars, uiVars>>

\* lines 434-447
DeleteNode ==
  /\ AllIdle
  /\ \E nodeId \in IdForms(gmNodes) :
       /\ MapGet(gmNodes, String(nodeId)) # NoNodeGM
       /\ Install(deleteNode(G, nodeId), tasks)
  /\ UNCHANGED <<hierVars, simVars, embVars, callVars, uiVars>>

\* lines 485-490
Clear ==
  /\ AllIdle
  /\ gmNodes # <<>>
  /\ Install([GraphOf(<<>>, <<>>, 1, 1) EXCEPT !.stale = {n.id : n \in Range(gmNodes)}],
             tasks)
  /\ UNCHANGED <<hierVars, simVars, embVars, callVars, uiVars>>

\* lines 244-251: generateRelatedNodes up to its first await
GenerateRelatedNodes ==
  /\ AllIdle
  /\ \E parentId \in IdForms(gmNodes) \cup {NoId} :
       tasks' = [tasks EXCEPT ![FreeSlot] =
                   [pc |-> "llm", kind |-> "generate", arg |-> parentId,
                    words |-> <<>>, depth |-> 0, held |-> FALSE]]
  /\ UNCHANGED <<gmNodes, gmEdges, nextNodeId, nextEdgeId, hierVars, simVars, embVars, callVars, uiVars>>

\* lines 316-336: deepDiveNode up to its first await; a node that getNode
\* does not find makes the call throw before anything changes
DeepDiveNode ==
  /\ AllIdle
  /\ \E nodeId \in IdForms(gmNodes) :
       /\ getNode(gmNodes, nodeId) # NoNodeGM
       /\ tasks' = [tasks EXCEPT ![FreeSlot] =
                      [pc |-> "llm", kind |-> "deepDive", arg |-> nodeId,
                       words |-> <<>>, depth |-> getNode(gmNodes, nodeId).depth,
                       held |-> TRUE]]
  /\ UNCHANGED <<gmNodes, gmEdges, nextNodeId, nextEdgeId, hierVars, simVars, embVars, callVars, uiVars>>

\* lines 252-268 and 337-355: the LLM's answer arrives; an empty answer ends
\* the call, otherwise generateRelatedNodes reads the parent's depth and both
\* ask for the embeddings
parentDepth(ns, parentId) ==
  IF parentId # NoId /\ getNode(ns, parentId) # NoNodeGM
  THEN getNode(ns, parentId).depth ELSE -1

LlmReturns(s) ==
  /\ tasks[s].pc = "llm"
  /\ \E relatedWords \in LlmAnswers :
       /\ Len(gmNodes) + Len(relatedWords) <= MaxGmNodes
       /\ nextNodeId + Len(relatedWords) <= MaxCounter + 1
       /\ nextEdgeId + Len(relatedWords) <= MaxCounter + 1
       /\ tasks' = [tasks EXCEPT ![s] =
            IF relatedWords = <<>> THEN IdleTask
            ELSE [@ EXCEPT !.pc = "embed", !.words = relatedWords,
                           !.depth = IF tasks[s].kind = "generate"
                                     THEN parentDepth(gmNodes, tasks[s].arg) ELSE @]]
  /\ UNCHANGED <<gmNodes, gmEdges, nextNodeId, nextEdgeId, hierVars, simVars, embVars, callVars, uiVars>>

\* lines 389-391: node.expanded = true on the object deepDiveNode holds
MarkExpanded(G1, t) ==
  IF t.kind = "deepDive" /\ t.held /\ String(t.arg) \notin G1.stale
  THEN [G1 EXCEPT !.nodes = [i \in 1..Len(@) |->
          IF @[i].id = String(t.arg) THEN [@[i] EXCEPT !.expanded = TRUE] ELSE @[i]]]
  ELSE G1

\* lines 269-310 and 356-394: the embeddings arrive and the loop runs
EmbeddingsReturn(s) ==
  /\ tasks[s].pc = "embed"
  /\ LET t == tasks[s]
         G1 == AddWords(G, t.words, 1, t.arg, t.depth + 1)
     IN Install(MarkExpanded(G1, t), [tasks EXCEPT ![s] = IdleTask])
  /\ UNCHANGED <<hierVars, simVars, embVars, callVars, uiVars>>

NextGM ==
  \/ InitFromData
  \/ AddEdge
  \/ DeleteNode
  \/ Clear
  \/ GenerateRelatedNodes
  \/ DeepDiveNode
  \/ \E s \in Slots : LlmReturns(s)
  \/ \E s \in Slots : EmbeddingsReturn(s)

SpecGM == InitGM /\ [][NextGM]_vars

\* the node that an id names, as a string or as a number
Names(id, n) == id # NoId /\ String(n.id) = String(id)

\* C9: at most one edge exists between any unordered pair of node ids,
\* whichever direction each edge was requested in and whether the ids were
\* given as strings or as numbers.
C9_OneEdgePerPair ==
  \A i, j \in 1..Len(gmEdges) :
    i # j => {String(gmEdges[i].source), String(gmEdges[i].target)}
             # {String(gmEdges[j].source), String(gmEdges[j].target)}

\* the labels of a batch that match no node of the graph and no earlier word
\* of the batch, in the order of the batch
RECURSIVE FreshWords(_, _, _)
FreshWords(words, i, seen) ==
  IF i > Len(words) THEN <<>>
  ELSE IF toLowerCase(words[i].word) \in seen
       THEN FreshWords(words, i + 1, seen)
       ELSE <<words[i].word>>
            \o FreshWords(words, i + 1, seen \cup {toLowerCase(words[i].word)})

\* C10: when the loop over the LLM's words has run, each word whose label
\* equals (case-insensitively) that of an existing node or of an earlier word
\* of the batch has created no node, and has added at most an edge from the
\* parent; each other word has created exactly one node, with llmGenerated
\* set and depth equal to the parent's depth plus 1 (0 without a parent).
C10_WordOutcome ==
  [][\A s \in Slots :
       (tasks[s].pc = "embed" /\ tasks'[s].pc = "idle") =>
         LET parentId == tasks[s].arg
             parents == {k \in 1..Len(gmNodes) : Names(parentId, gmNodes[k])}
             newDepth == IF parents = {} THEN 0
                         ELSE gmNodes[CHOOSE k \in parents : TRUE].depth + 1
             fresh == FreshWords(tasks[s].words, 1,
                                 {toLowerCase(n.label) : n \in Range(gmNodes)})
         IN /\ Len(gmNodes') = Len(gmNodes) + Len(fresh)
            /\ \A k \in 1..Len(gmNodes) :
                 /\ k <= Len(gmNodes')
                 /\ gmNodes'[k].id = gmNodes[k].id
                 /\ gmNodes'[k].label = gmNodes[k].label
            /\ \A k \in 1..Len(fresh) :
                 Len(gmNodes) + k <= Len(gmNodes') =>
                   /\ gmNodes'[Len(gmNodes) + k].label = fresh[k]
                   /\ gmNodes'[Len(gmNodes) + k].llmGenerated
                   /\ gmNodes'[Len(gmNodes) + k].depth = newDepth
            /\ \A e \in Range(gmEdges') \ Range(gmEdges) : e.source = parentId
    ]_vars

(***************************************************************************)
(* Specification SpecGMFail: expansions of a loaded graph, one at a time,  *)
(* where the LLM call or the embedding call may throw                      *)
(***************************************************************************)
\* documents whose nodes are joined in a chain
ChainEdges(ns) ==
  [i \in 1..(Len(ns) - 1) |->
     [source |-> ns[i].id, target |-> ns[i + 1].id, relation |-> "r"]]

ChainDocs ==
  {[nodes |-> ImportNodes(scheme, k), edges |-> ChainEdges(ImportNodes(scheme, k))] :
     scheme \in IdSchemes, k \in 1..MaxImportNodes}

InitGMFail ==
  /\ HierIdle /\ SimIdle /\ EmbIdle /\ UiIdle /\ CallIdle
  /\ tasks = [s \in Slots |-> IdleTask]
  /\ \E graphData \in ChainDocs :
       LET G1 == initFromData(GraphOf(<<>>, <<>>, 1, 1), graphData)
       IN /\ gmNodes = G1.nodes
          /\ gmEdges = G1.edges
          /\ nextNodeId = G1.nextNodeId
          /\ nextEdgeId = G1.nextEdgeId

\* line 255 / 340: the awaited llmService call rejects; nothing in
\* generateRelatedNodes or deepDiveNode catches it
LlmFails(s) ==
  /\ tasks[s].pc = "llm"
  /\ tasks' = [tasks EXCEPT ![s].pc = "failed"]
  /\ UNCHANGED <<gmNodes, gmEdges, nextNodeId, nextEdgeId, hierVars, simVars,
                 embVars, callVars, uiVars>>

\* the embedding call rejects after the first word had been added (not what
\* the code does: the vectors are awaited before the loop starts)
EmbeddingsFail_AfterFirstWord(s) ==
  /\ tasks[s].pc = "embed"
  /\ Install(AddWords(G, SubSeq(tasks[s].words, 1, 1), 1, tasks[s].arg,
                      tasks[s].depth + 1),
             [tasks EXCEPT ![s].pc = "failed"])
  /\ UNCHANGED <<hierVars, simVars, embVars, callVars, uiVars>>

\* line 268 / 354: the awaited getBatchEmbeddings call rejects
EmbeddingsFail(s) ==
  /\ tasks[s].pc = "embed"
  /\ tasks' = [tasks EXCEPT ![s].pc = "failed"]
  /\ UNCHANGED <<gmNodes, gmEdges, nextNodeId, nextEdgeId, hierVars, simVars,
                 embVars, callVars, uiVars>>

\* the caller's catch block: the error is reported and the handler ends
CatchError(s) ==
  /\ tasks[s].pc = "failed"
  /\ tasks' = [tasks EXCEPT ![s] = IdleTask]
  /\ UNCHANGED <<gmNodes, gmEdges, nextNodeId, nextEdgeId, hierVars, simVars,
                 embVars, callVars, uiVars>>

NextGMFail ==
  \/ GenerateRelatedNodes
  \/ DeepDiveNode
  \/ \E s \in Slots : LlmReturns(s)
  \/ \E s \in Slots : LlmFails(s)
  \/ \E s \in Slots : EmbeddingsReturn(s)
  \/ \E s \in Slots : EmbeddingsFail(s)
  \/ \E s \in Slots : CatchError(s)

SpecGMFail == InitGMFail /\ [][NextGMFail]_vars

\* C11: when the LLM call or the batch embedding of a generateRelatedNodes
\* or deepDiveNode call fails, the error reaches the caller, the call is not
\* retried, and the node map (each node's expanded flag included) and the
\* edge map are as they were before the call: calls run one at a time here,
\* so this is that every step of a call other than its successful end leaves
\* both maps unchanged, that a failure ends the call with the error, and that
\* after the error the call takes no further step of its own.
C11_FailureLeavesGraph ==
  [][/\ ~(\E s \in Slots : tasks[s].pc = "embed" /\ tasks'[s].pc = "idle")
          => UNCHANGED <<gmNodes, gmEdges>>
     /\ \A s \in Slots :
          /\ (tasks[s].pc \in {"llm", "embed"} /\ tasks'[s].pc \notin {"embed", "idle"})
               => tasks'[s].pc = "failed"
          /\ tasks[s].pc = "failed" => tasks'[s].pc = "idle"
    ]_vars

\* a deepDiveNode call whose embedding call failed after the LLM had answered,
\* on a graph that has an edge
C11_Witness ==
  \E s \in Slots :
    /\ tasks[s].pc = "failed"
    /\ tasks[s].kind = "deepDive"
    /\ tasks[s].words # <<>>
    /\ gmEdges # <<>>

(***************************************************************************)
(* embedding.js of llm-dynamic-mindmap (part_002)                          *)
(* Specification SpecEmbed: callers of initEmbedding / getEmbedding /      *)
(* getBatchEmbeddings and the model loads they start                       *)
(***************************************************************************)
\* pipelineLoads[k] is the outcome of the k-th pipeline(...) call:
\* "pending", "loaded" or "failed".  loadPromise is 0 (null) or the k of the
\* load whose promise it holds.
Callers == 1..MaxCallers
EmbeddingFns == {"initEmbedding", "getEmbedding", "getBatchEmbeddings"}
IdleCaller == [pc |-> "idle", fn |-> "none", awaits |-> 0]

InitEmbed ==
  /\ HierIdle /\ SimIdle /\ GmIdle /\ CallIdle /\ UiIdle
  /\ embedder = FALSE
  /\ embIsLoading = FALSE
  /\ loadPromise = 0
  /\ embCalls = [c \in Callers |-> IdleCaller]
  /\ pipelineLoads = <<>>

\* `if (isLoading && loadPromise)` never taken
LoadInFlight_Never == FALSE

\* part_002 line 499: `if (isLoading && loadPromise)`
LoadInFlight == embIsLoading /\ loadPromise # 0

\* part_002 lines 492-527: initEmbedding up to the point where it returns
\* (getEmbedding and getBatchEmbeddings start with `await initEmbedding()`)
CallInitEmbedding(c) ==
  /\ embCalls[c].pc = "idle"
  /\ \E fn \in EmbeddingFns :
       IF embedder
       THEN /\ embCalls' = [embCalls EXCEPT ![c] = [pc |-> "done", fn |-> fn, awaits |-> 0]]
            /\ UNCHANGED <<embedder, embIsLoading, loadPromise, pipelineLoads>>
       ELSE IF LoadInFlight
       THEN /\ embCalls' = [embCalls EXCEPT ![c] =
                              [pc |-> "await", fn |-> fn, awaits |-> loadPromise]]
            /\ UNCHANGED <<embedder, embIsLoading, loadPromise, pipelineLoads>>
       ELSE /\ embIsLoading' = TRUE
            /\ pipelineLoads' = Append(pipelineLoads, "pending")
            /\ loadPromise' = Len(pipelineLoads) + 1
            /\ embCalls' = [embCalls EXCEPT ![c] =
                              [pc |-> "await", fn |-> fn, awaits |-> Len(pipelineLoads) + 1]]
            /\ UNCHANGED embedder
  /\ UNCHANGED <<hierVars, simVars, gmVars, callVars, uiVars>>

\* lines 509-517: pipeline(...) resolves inside the async block
LoadSucceeds(k) ==
  /\ k \in 1..Len(pipelineLoads)
  /\ pipelineLoads[k] = "pending"
  /\ embedder' = TRUE
  /\ pipelineLoads' = [pipelineLoads EXCEPT ![k] = "loaded"]
  /\ UNCHANGED <<embIsLoading, loadPromise, embCalls, hierVars, simVars, gmVars, callVars, uiVars>>

\* a catch block that rethrows and leaves isLoading and loadPromise as they are
LoadFails_KeepsPromise(k) ==
  /\ k \in 1..Len(pipelineLoads)
  /\ pipelineLoads[k] = "pending"
  /\ Len(pipelineLoads) < MaxLoads
  /\ pipelineLoads' = [pipelineLoads EXCEPT ![k] = "failed"]
  /\ UNCHANGED <<embedder, embIsLoading, loadPromise, embCalls,
                 hierVars, simVars, gmVars, callVars, uiVars>>

\* lines 518-523: pipeline(...) rejects inside the async block
LoadFails(k) ==
  /\ k \in 1..Len(pipelineLoads)
  /\ pipelineLoads[k] = "pending"
  /\ Len(pipelineLoads) < MaxLoads
  /\ embIsLoading' = FALSE
  /\ loadPromise' = 0
  /\ pipelineLoads' = [pipelineLoads EXCEPT ![k] = "failed"]
  /\ UNCHANGED <<embedder, embCalls, hierVars, simVars, gmVars, callVars, uiVars>>

\* a caller's await on the promise it was given ends
ResumeCaller(c) ==
  /\ embCalls[c].pc = "await"
  /\ pipelineLoads[embCalls[c].awaits] # "pending"
  /\ embCalls' = [embCalls EXCEPT ![c].pc =
                    IF pipelineLoads[embCalls[c].awaits] = "loaded" THEN "done" ELSE "error"]
  /\ UNCHANGED <<embedder, embIsLoading, loadPromise, pipelineLoads,
                 hierVars, simVars, gmVars, callVars, uiVars>>

\* the caller has its model or its error and may call again
CallerReturns(c) ==
  /\ embCalls[c].pc \in {"done", "error"}
  /\ embCalls' = [embCalls EXCEPT ![c] = IdleCaller]
  /\ UNCHANGED <<embedder, embIsLoading, loadPromise, pipelineLoads,
                 hierVars, simVars, gmVars, callVars, uiVars>>

NextEmbed ==
  \/ \E c \in Callers : CallInitEmbedding(c)
  \/ \E k \in 1..MaxLoads : LoadSucceeds(k)
  \/ \E k \in 1..MaxLoads : LoadFails(k)
  \/ \E c \in Callers : ResumeCaller(c)
  \/ \E c \in Callers : CallerReturns(c)

SpecEmbed == InitEmbed /\ [][NextEmbed]_vars

\* C12: however many initEmbedding / getEmbedding / getBatchEmbeddings calls
\* are issued before the first model load completes, pipeline(...) has been
\* called exactly once and every such caller awaits that one load; a load
\* that is pending or has succeeded is the last one ever started.
C12_LoadedOnce ==
  /\ \A k \in 1..Len(pipelineLoads) :
       pipelineLoads[k] \in {"pending", "loaded"} => k = Len(pipelineLoads)
  /\ (Len(pipelineLoads) >= 1 /\ pipelineLoads[1] = "pending") =>
       /\ Len(pipelineLoads) = 1
       /\ \A c \in Callers : embCalls[c].pc = "await" => embCalls[c].awaits = 1
  /\ (\E c \in Callers : embCalls[c].pc # "idle") => Len(pipelineLoads) >= 1

\* all callers, one of each function, wait on the first load, still pending
C12_Witness ==
  /\ Len(pipelineLoads) = 1
  /\ pipelineLoads[1] = "pending"
  /\ \A c \in Callers : embCalls[c].pc = "await"
  /\ \E c, e \in Callers : embCalls[c].fn = "initEmbedding" /\ embCalls[e].fn = "getBatchEmbeddings"

(***************************************************************************)
(* embedding.js of MindmapJS/dynamic-mindmap (CytoscapeGraph.jsx 168-)     *)
(* Specification SpecEmbedMM: the module keeps only `embedder`             *)
(***************************************************************************)
InitEmbedMM == InitEmbed

\* lines 177-196: initEmbedding up to its await, or to its return when the
\* model is there
CallInitEmbeddingMM(c) ==
  /\ embCalls[c].pc = "idle"
  /\ \E fn \in EmbeddingFns :
       IF embedder
       THEN /\ embCalls' = [embCalls EXCEPT ![c] = [pc |-> "done", fn |-> fn, awaits |-> 0]]
            /\ UNCHANGED pipelineLoads
       ELSE /\ pipelineLoads' = Append(pipelineLoads, "pending")
            /\ embCalls' = [embCalls EXCEPT ![c] =
                              [pc |-> "await", fn |-> fn, awaits |-> Len(pipelineLoads) + 1]]
  /\ UNCHANGED <<embedder, embIsLoading, loadPromise, hierVars, simVars, gmVars, callVars, uiVars>>

\* lines 182-189: `embedder = await pipeline(...)` resumes with the model
PipelineResolves(c) ==
  /\ embCalls[c].pc = "await"
  /\ pipelineLoads[embCalls[c].awaits] = "pending"
  /\ embedder' = TRUE
  /\ pipelineLoads' = [pipelineLoads EXCEPT ![embCalls[c].awaits] = "loaded"]
  /\ embCalls' = [embCalls EXCEPT ![c].pc = "done"]
  /\ UNCHANGED <<embIsLoading, loadPromise, hierVars, simVars, gmVars, callVars, uiVars>>

\* lines 190-193: pipeline(...) rejects and initEmbedding rethrows
PipelineRejects(c) ==
  /\ embCalls[c].pc = "await"
  /\ pipelineLoads[embCalls[c].awaits] = "pending"
  /\ Len(pipelineLoads) < MaxLoads
  /\ pipelineLoads' = [pipelineLoads EXCEPT ![embCalls[c].awaits] = "failed"]
  /\ embCalls' = [embCalls EXCEPT ![c].pc = "error"]
  /\ UNCHANGED <<embedder, embIsLoading, loadPromise, hierVars, simVars, gmVars, callVars, uiVars>>

NextEmbedMM ==
  \/ \E c \in Callers : CallInitEmbeddingMM(c)
  \/ \E c \in Callers : PipelineResolves(c)
  \/ \E c \in Callers : PipelineRejects(c)
  \/ \E c \in Callers : CallerReturns(c)

SpecEmbedMM == InitEmbedMM /\ [][NextEmbedMM]_vars

\* C13: concurrent initEmbedding calls issued before the first model load
\* completes share one load, so the pipeline is never loaded more than once:
\* of the pipeline(...) calls made so far at most one has not failed.
C13_NeverLoadedTwice ==
  Cardinality({k \in 1..Len(pipelineLoads) : pipelineLoads[k] # "failed"}) <= 1

(***************************************************************************)
(* Specification SpecGMRace: a loaded graph on which the caller has        *)
(* started two expansions without awaiting the first                       *)
(***************************************************************************)
\* the calls a handler can make on the graph: ids come back from Cytoscape
\* as strings; generateRelatedNodes may have no parent
RaceCalls(ns) ==
  {[kind |-> "generate", arg |-> a] : a \in {String(n.id) : n \in Range(ns)} \cup {NoId}}
  \cup {[kind |-> "deepDive", arg |-> String(n.id)] :
          n \in {m \in Range(ns) : getNode(ns, m.id) # NoNodeGM}}

\* lines 244-255 / 316-345: the call has run up to its first await
StartedTask(ns, call) ==
  [pc |-> "llm", kind |-> call.kind, arg |-> call.arg, words |-> <<>>,
   depth |-> IF call.kind = "deepDive" THEN getNode(ns, call.arg).depth ELSE 0,
   held |-> call.kind = "deepDive"]

InitGMRace ==
  /\ HierIdle /\ SimIdle /\ EmbIdle /\ UiIdle /\ CallIdle
  /\ \E graphData \in ChainDocs :
       LET G1 == initFromData(GraphOf(<<>>, <<>>, 1, 1), graphData)
       IN /\ gmNodes = G1.nodes
          /\ gmEdges = G1.edges
          /\ nextNodeId = G1.nextNodeId
          /\ nextEdgeId = G1.nextEdgeId
          /\ \E c1, c2 \in RaceCalls(G1.nodes) :
               tasks = [s \in Slots |->
                          StartedTask(G1.nodes, IF s = 1 THEN c1 ELSE c2)]

NextGMRace ==
  \/ \E s \in Slots : LlmReturns(s)
  \/ \E s \in Slots : EmbeddingsReturn(s)

SpecGMRace == InitGMRace /\ [][NextGMRace]_vars

IsNumber(id) == id[1] = "num"

\* no id held by the graph is a number
StringIds ==
  /\ \A n \in Range(gmNodes) : ~IsNumber(n.id)
  /\ \A e \in Range(gmEdges) : ~IsNumber(e.source) /\ ~IsNumber(e.target)

DuplicateLabels ==
  \E i, j \in 1..Len(gmNodes) :
    i # j /\ toLowerCase(gmNodes[i].label) = toLowerCase(gmNodes[j].label)

DuplicateEdges ==
  \E i, j \in 1..Len(gmEdges) :
    i # j /\ {String(gmEdges[i].source), String(gmEdges[i].target)}
             = {String(gmEdges[j].source), String(gmEdges[j].target)}

\* both expansions have ended and both applied the same new word: a node
\* made by an expansion has an edge from each of two different parents
BothAppliedTheSameWord ==
  /\ AllIdle
  /\ \E n \in Range(gmNodes) :
       /\ n.llmGenerated
       /\ \E e, f \in Range(gmEdges) :
            /\ e.target = n.id /\ f.target = n.id
            /\ e.source # f.source

NewGraph == GraphOf(<<>>, <<>>, 1, 1)

\* lines 495-517 (metadata left out: initFromData does not read it)
toYamlData(g) ==
  [nodes |-> [i \in 1..Len(g.nodes) |->
                [id |-> g.nodes[i].id, label |-> g.nodes[i].label,
                 depth |-> g.nodes[i].depth, visible |-> g.nodes[i].visible,
                 expanded |-> g.nodes[i].expanded,
                 llmGenerated |-> g.nodes[i].llmGenerated]],
   edges |-> [i \in 1..Len(g.edges) |->
                [source |-> g.edges[i].source, target |-> g.edges[i].target,
                 relation |-> g.edges[i].relation]]]

\* Graphs a GraphManager can hold: a loaded document, then possibly one
\* expansion, then possibly one deleteNode
Fresh(g) == [g EXCEPT !.stale = {}]

LoadedGraphs(docs) == {initFromData(NewGraph, graphData) : graphData \in docs}

\* answers in which a word may be the empty string and a relation missing
YamlAnswers ==
  SeqsUpTo({[word |-> w, relation |-> r] :
              w \in WordChoices \cup {EmptyLabel}, r \in {"related", NoRelation}},
           MaxWords)

AnswersFor(g) ==
  {w \in YamlAnswers : w # <<>> /\ Len(g.nodes) + Len(w) <= MaxGmNodes}

GeneratedFrom(g) ==
  {AddWords(g, w, 1, a, parentDepth(g.nodes, a) + 1) :
     w \in AnswersFor(g), a \in IdForms(g.nodes) \cup {NoId}}

DeepDivedFrom(g) ==
  {MarkExpanded(AddWords(g, w, 1, a, getNode(g.nodes, a).depth + 1),
                [kind |-> "deepDive", held |-> TRUE, arg |-> a]) :
     w \in AnswersFor(g),
     a \in {b \in IdForms(g.nodes) : getNode(g.nodes, b) # NoNodeGM}}

DeletedFrom(g) == {deleteNode(g, id) : id \in IdForms(g.nodes)}

SampleGraphs(docs) ==
  LET loaded == LoadedGraphs(docs)
      expanded == loaded
                  \cup UNION {GeneratedFrom(g) \cup DeepDivedFrom(g) : g \in loaded}
  IN {Fresh(g) : g \in expanded \cup UNION {DeletedFrom(g) : g \in expanded}}

InitYaml ==
  /\ HierIdle /\ SimIdle /\ EmbIdle /\ UiIdle /\ CallIdle
  /\ tasks = [s \in Slots |-> IdleTask]
  /\ \E g \in SampleGraphs(GraphDocs) :
       /\ gmNodes = g.nodes
       /\ gmEdges = g.edges
       /\ nextNodeId = g.nextNodeId
       /\ nextEdgeId = g.nextEdgeId

ExportAndReload ==
  /\ callArgs = NoCall
  /\ callArgs' = [fn |-> "toYamlData", data |-> toYamlData(G)]
  /\ callResult' = [fn |-> "initFromData",
                    graph |-> initFromData(NewGraph, toYamlData(G))]
  /\ UNCHANGED <<hierVars, simVars, gmVars, embVars, uiVars>>

NextYaml == ExportAndReload

SpecYaml == InitYaml /\ [][NextYaml]_vars

NodeFacts(ns) == {<<n.id, n.label, n.depth>> : n \in Range(ns)}
EdgeFacts(es) == {<<e.source, e.target, e.relation>> : e \in Range(es)}

\* C15: exporting a graph with toYamlData and loading the result with
\* initFromData into a new GraphManager gives the same set of node ids, each
\* with the same label and depth, and the same set of (source, target,
\* relation) edges.
C15_RoundTrip ==
  callResult # NoCall =>
    /\ NodeFacts(callResult.graph.nodes) = NodeFacts(gmNodes)
    /\ Len(callResult.graph.nodes) = Len(gmNodes)
    /\ EdgeFacts(callResult.graph.edges) = EdgeFacts(gmEdges)

(***************************************************************************)
(* Specification SpecCos: cosineSimilarity on a pair of vectors            *)
(* (similarity.js; hierarchy.js 133-148 holds the same function)           *)
(***************************************************************************)
IsSquare(x) == \E r \in 0..x : r * r = x

\* vectors with entries in -MaxCoord..MaxCoord whose magnitude is an integer,
\* the zero vectors among them; NoVector is a missing vector
VectorsOfDim(n) ==
  {v \in [1..n -> (0 - MaxCoord)..MaxCoord] : IsSquare(DotProduct(v, v, 1))}

CosVectors == {NoVector} \cup UNION {VectorsOfDim(n) : n \in 1..MaxDim}

InitCos ==
  /\ HierIdle /\ SimIdle /\ GmIdle /\ EmbIdle /\ UiIdle
  /\ \E a \in CosVectors, b \in CosVectors :
       callArgs = [fn |-> "cosineSimilarity", vec1 |-> a, vec2 |-> b]
  /\ callResult = NoCall

\* the call, and the call with the two arguments exchanged
CallCosineSimilarity ==
  /\ callArgs # NoCall
  /\ callResult = NoCall
  /\ callResult' = [fn |-> "cosineSimilarity",
                    value |-> cosineSimilarity(callArgs.vec1, callArgs.vec2),
                    exchanged |-> cosineSimilarity(callArgs.vec2, callArgs.vec1)]
  /\ UNCHANGED <<callArgs, hierVars, simVars, gmVars, embVars, uiVars>>

NextCos == CallCosineSimilarity

SpecCos == InitCos /\ [][NextCos]_vars

ZeroMagnitude(v) == v # NoVector /\ DotProduct(v, v, 1) = 0

\* C16: cosineSimilarity returns exactly 0, a number and not NaN (0 / 0),
\* whenever either vector is missing, the two lengths differ, or either
\* vector has zero magnitude.
C16_DegenerateIsZero ==
  callResult # NoCall =>
    LET a == callArgs.vec1
        b == callArgs.vec2
    IN /\ callResult.value.d # 0
       /\ (a = NoVector \/ b = NoVector \/ Len(a) # Len(b)
             \/ ZeroMagnitude(a) \/ ZeroMagnitude(b))
            => callResult.value = Frac(0, 1)

\* the example a = [0,0], b = [1,0] has been computed
C16_Witness ==
  /\ callResult # NoCall
  /\ callArgs.vec1 = <<0, 0>>
  /\ callArgs.vec2 = <<1, 0>>

\* C17: cosineSimilarity(a, b) equals cosineSimilarity(b, a) for every pair
\* of vectors, pairs with a missing, zero-magnitude or mismatched-length
\* vector included.
C17_Symmetric ==
  callResult # NoCall => callResult.value = callResult.exchanged

\* two different vectors of non-zero similarity have been compared
C17_Witness ==
  /\ callResult # NoCall
  /\ callArgs.vec1 = <<3, 4>>
  /\ callArgs.vec2 = <<4, 3>>
  /\ callResult.value = Frac(24, 25)

(***************************************************************************)
(* Specification SpecParse: BaseLLMService.parseJsonResponse               *)
(* (llmService.js, as listed in README.md 178-330)                         *)
(*                                                                         *)
(* A response text is a sequence of tokens: "[", "]" and "," are the       *)
(* characters, "w" is an object literal {"word": .., "relation": ..}, "n"  *)
(* the literal null, and "x" a stretch of prose that is not JSON.          *)
(***************************************************************************)
Tokens == {"[", "]", ",", "w", "n", "x"}

\* data.content[0].text when the response holds no text
NoText == <<"undefined">>

Texts == {NoText} \cup SeqsUpTo(Tokens, MaxText)

JsonArray(items) == [type |-> "array", items |-> items]
JsonObject == [type |-> "object", items |-> <<>>]
JsonNull == [type |-> "null", items |-> <<>>]
SyntaxError == [ok |-> FALSE, value |-> JsonNull, next |-> 0]
Parsed(v, i) == [ok |-> TRUE, value |-> v, next |-> i]

\* JSON.parse: one value starting at token i
RECURSIVE ParseValue(_, _), ParseElements(_, _, _)
ParseValue(t, i) ==
  IF i > Len(t) THEN SyntaxError
  ELSE IF t[i] = "w" THEN Parsed(JsonObject, i + 1)
  ELSE IF t[i] = "n" THEN Parsed(JsonNull, i + 1)
  ELSE IF t[i] = "["
    THEN IF i + 1 <= Len(t) /\ t[i + 1] = "]"
         THEN Parsed(JsonArray(<<>>), i + 2)
         ELSE ParseElements(t, i + 1, <<>>)
  ELSE SyntaxError

\* the elements of an array after its "[", up to and including its "]"
ParseElements(t, i, acc) ==
  LET v == ParseValue(t, i)
  IN IF ~v.ok THEN SyntaxError
     ELSE IF v.next <= Len(t) /\ t[v.next] = "]"
       THEN Parsed(JsonArray(Append(acc, v.value)), v.next + 1)
     ELSE IF v.next <= Len(t) /\ t[v.next] = ","
       THEN ParseElements(t, v.next + 1, Append(acc, v.value))
     ELSE SyntaxError

\* JSON.parse(text): the whole text is one value, or a SyntaxError is thrown
JSONparse(t) ==
  LET v == ParseValue(t, 1)
  IN IF v.ok /\ v.next = Len(t) + 1 THEN v ELSE SyntaxError

NoMatch == <<"null">>

\* text.match(/\[[\s\S]*\]/): from the first "[" that has a "]" after it to
\* the last "]" of the text
match(text) ==
  LET closes == {j \in 1..Len(text) : text[j] = "]"}
      last == IF closes = {} THEN 0
              ELSE CHOOSE j \in closes : \A k \in closes : k <= j
      opens == {i \in 1..Len(text) : text[i] = "[" /\ i < last}
  IN IF opens = {} THEN NoMatch
     ELSE SubSeq(text, CHOOSE i \in opens : \A k \in opens : i <= k, last)

\* README.md 200-213; text.match on a missing text and JSON.parse on an
\* unparseable one throw inside the try, and the catch returns []
parseJsonResponse(text) ==
  IF text = NoText THEN JsonArray(<<>>)
  ELSE LET jsonMatch == match(text)
       IN IF jsonMatch # NoMatch
          THEN LET r == JSONparse(jsonMatch)
               IN IF r.ok THEN r.value ELSE JsonArray(<<>>)
          ELSE LET r == JSONparse(text)
               IN IF r.ok THEN r.value ELSE JsonArray(<<>>)

InitParse ==
  /\ HierIdle /\ SimIdle /\ GmIdle /\ EmbIdle /\ UiIdle
  /\ \E text \in Texts : callArgs = [fn |-> "parseJsonResponse", text |-> text]
  /\ callResult = NoCall

\* generateRelatedWords / deepDive: return this.parseJsonResponse(response)
CallParseJsonResponse ==
  /\ callArgs # NoCall
  /\ callResult = NoCall
  /\ callResult' = [fn |-> "parseJsonResponse",
                    value |-> parseJsonResponse(callArgs.text)]
  /\ UNCHANGED <<callArgs, hierVars, simVars, gmVars, embVars, uiVars>>

NextParse == CallParseJsonResponse

SpecParse == InitParse /\ [][NextParse]_vars

\* some stretch of the text is the text of a JSON array
ContainsJsonArray(text) ==
  /\ text # NoText
  /\ \E i \in 1..Len(text), j \in 1..Len(text) :
       /\ i <= j
       /\ LET r == JSONparse(SubSeq(text, i, j))
          IN r.ok /\ r.value.type = "array"

\* C18: parseJsonResponse never raises, and for every response text that
\* does not contain a parseable JSON array it returns an empty list, so the
\* value handed to generateRelatedNodes / deepDiveNode is always a list.
C18_AlwaysAList ==
  callResult # NoCall =>
    /\ callResult.value.type = "array"
    /\ ~ContainsJsonArray(callArgs.text) => callResult.value = JsonArray(<<>>)

(***************************************************************************)
(* Specification SpecCsv: csvToJsonForCytoscape (App.jsx, CSV variant)     *)
(*                                                                         *)
(* A CSV text is a sequence of lines (split(/\r?\n/)), a line a sequence   *)
(* of fields (split(',')), a field a sequence of characters.               *)
(***************************************************************************)
\* UTF-16 code units of the characters used
CharCode(c) ==
  CASE c = " " -> 32 [] c = "-" -> 45 [] c = "a" -> 97 [] c = "b" -> 98
    [] c = "c" -> 99

\* String.prototype.trim on a field
RECURSIVE TrimLeft(_), TrimRight(_)
TrimLeft(f) == IF f # <<>> /\ Head(f) = " " THEN TrimLeft(Tail(f)) ELSE f
TrimRight(f) ==
  IF f # <<>> /\ f[Len(f)] = " " THEN TrimRight(SubSeq(f, 1, Len(f) - 1)) ELSE f
trim(f) == TrimRight(TrimLeft(f))

\* the order Array.prototype.sort puts two strings in: by code units, a proper
\* prefix first
RECURSIVE StringLess(_, _)
StringLess(x, y) ==
  IF y = <<>> THEN FALSE
  ELSE IF x = <<>> THEN TRUE
  ELSE IF Head(x) # Head(y) THEN CharCode(Head(x)) < CharCode(Head(y))
  ELSE StringLess(Tail(x), Tail(y))

\* a key that keeps the order in which the line names the two ids
sortedNodes_AsWritten(source, target) == <<source, target>>

\* [source, target].sort()
sortedNodes(source, target) ==
  IF StringLess(target, source) THEN <<target, source>> ELSE <<source, target>>

\* `${sortedNodes[0]}-${sortedNodes[1]}`
edgeKey(source, target) ==
  LET sorted == sortedNodes(source, target)
  IN sorted[1] \o <<"-">> \o sorted[2]

\* a line made of white space only
IsBlankLine(line) == Len(line) = 1 /\ trim(line[1]) = <<>>

\* csvText.trim().split(/\r?\n/): leading and trailing blank lines go, and an
\* empty text is one empty line.  The white space trim() takes from the first
\* and the last line that stay is taken again by the trim of each field.
RECURSIVE DropLeadingBlank(_), DropTrailingBlank(_)
DropLeadingBlank(ls) ==
  IF ls # <<>> /\ IsBlankLine(Head(ls)) THEN DropLeadingBlank(Tail(ls)) ELSE ls
DropTrailingBlank(ls) ==
  IF ls # <<>> /\ IsBlankLine(ls[Len(ls)])
  THEN DropTrailingBlank(SubSeq(ls, 1, Len(ls) - 1)) ELSE ls
SplitLines(csvText) ==
  LET ls == DropTrailingBlank(DropLeadingBlank(csvText))
  IN IF ls = <<>> THEN <<(<<(<<>>)>>)>> ELSE ls

\* no line is dropped as the header
dataLinesOf_KeepFirst(lines) == lines

\* lines.slice(1)
dataLinesOf(lines) == Tail(lines)

SetAdd(set, x) == IF x \in Range(set) THEN set ELSE Append(set, x)

\* dataLines.forEach(line => ...), lines 55-82
RECURSIVE ForEachLine(_, _, _)
ForEachLine(dataLines, i, acc) ==
  IF i > Len(dataLines) THEN acc
  ELSE LET parts == dataLines[i]
       IN IF Len(parts) < 2 THEN ForEachLine(dataLines, i + 1, acc)
          ELSE LET source == trim(parts[1])
                   target == trim(parts[2])
               IN IF source = <<>> \/ target = <<>>
                  THEN ForEachLine(dataLines, i + 1, acc)
                  ELSE LET key == edgeKey(source, target)
                           isNew == key \notin acc.edgeSet
                           edgeCount == IF isNew THEN acc.edgeCount + 1
                                        ELSE acc.edgeCount
                       IN ForEachLine(dataLines, i + 1,
                            [edges |-> IF isNew
                                       THEN Append(acc.edges,
                                              [id |-> <<edgeCount, key>>,
                                               source |-> source,
                                               target |-> target])
                                       ELSE acc.edges,
                             edgeSet |-> acc.edgeSet \cup {key},
                             edgeCount |-> edgeCount,
                             nodesSet |-> SetAdd(SetAdd(acc.nodesSet, source),
                                                 target)])

\* lines 43-94
csvToJsonForCytoscape(csvText) ==
  LET lines == SplitLines(csvText)
  IN IF Len(lines) <= 1 THEN [nodes |-> <<>>, edges |-> <<>>]
     ELSE LET acc == ForEachLine(dataLinesOf(lines), 1,
                       [edges |-> <<>>, edgeSet |-> {}, edgeCount |-> 0,
                        nodesSet |-> <<>>])
          IN [nodes |-> acc.nodesSet, edges |-> acc.edges]

\* fields: empty, blank, ids with and without white space around them, and
\* ids that hold the "-" the edge key is joined with
CsvFields ==
  {<<>>, <<" ">>, <<"a">>, <<" ", "a">>, <<"c">>, <<"a", "-", "b">>,
   <<"b", "-", "c">>}

\* header lines: column names, and a blank first line
CsvHeaders == {<<(<<"a">>), (<<"c">>)>>, <<(<<" ">>)>>}

\* the lines made of the fields `cells`, a line starting at each field i
\* with starts[i]
RECURSIVE LinesOf(_, _, _, _)
LinesOf(cells, starts, i, ls) ==
  IF i > Len(cells) THEN ls
  ELSE LinesOf(cells, starts, i + 1,
               IF starts[i] THEN Append(ls, <<cells[i]>>)
               ELSE [ls EXCEPT ![Len(ls)] = Append(@, cells[i])])

\* a text of at most MaxCells fields, alone or after a header line
InitCsv ==
  /\ HierIdle /\ SimIdle /\ GmIdle /\ EmbIdle /\ UiIdle
  /\ \E k \in 0..MaxCells :
       \E cells \in [1..k -> CsvFields], starts \in [1..k -> BOOLEAN] :
         /\ k > 0 => starts[1]
         /\ LET rest == LinesOf(cells, starts, 1, <<>>)
            IN \/ callArgs = [fn |-> "csvToJsonForCytoscape", csvText |-> rest]
               \/ \E header \in CsvHeaders :
                    callArgs = [fn |-> "csvToJsonForCytoscape",
                                csvText |-> <<header>> \o rest]
  /\ callResult = NoCall

CallCsvToJson ==
  /\ callArgs # NoCall
  /\ callResult = NoCall
  /\ callResult' = [fn |-> "csvToJsonForCytoscape",
                    elements |-> csvToJsonForCytoscape(callArgs.csvText)]
  /\ UNCHANGED <<callArgs, hierVars, simVars, gmVars, embVars, uiVars>>

NextCsv == CallCsvToJson

SpecCsv == InitCsv /\ [][NextCsv]_vars

\* the lines after the header line, the header being the first line of the
\* text that is not blank
LinesAfterHeader(csvText) ==
  LET ls == DropLeadingBlank(csvText)
  IN IF ls = <<>> THEN <<>> ELSE Tail(ls)

WellFormed(line) ==
  Len(line) >= 2 /\ trim(line[1]) # <<>> /\ trim(line[2]) # <<>>

WellFormedPairs(csvText) ==
  {<<trim(line[1]), trim(line[2])>> :
     line \in {l \in Range(LinesAfterHeader(csvText)) : WellFormed(l)}}

\* C19: csvToJsonForCytoscape skips the header line, ignores every line with
\* fewer than two fields or an empty source or target, returns at most one
\* edge per unordered {source, target} pair and exactly one node per
\* distinct id that is an endpoint of a well-formed line, so every returned
\* edge has both endpoints among the returned nodes.
C19_CsvElements ==
  callResult # NoCall =>
    LET el == callResult.elements
        pairs == WellFormedPairs(callArgs.csvText)
        ids == {n : n \in Range(el.nodes)}
    IN /\ \A e \in Range(el.edges) : <<e.source, e.target>> \in pairs
       /\ \A i, j \in 1..Len(el.edges) :
            i # j => {el.edges[i].source, el.edges[i].target}
                       # {el.edges[j].source, el.edges[j].target}
       /\ ids = UNION {{p[1], p[2]} : p \in pairs}
       /\ Cardinality(ids) = Len(el.nodes)
       /\ \A e \in Range(el.edges) : e.source \in ids /\ e.target \in ids

\* a header, then a,c and c,a: one edge and two nodes came back
C19_Witness ==
  /\ callResult # NoCall
  /\ Len(callArgs.csvText) = 3
  /\ callArgs.csvText[2] = <<(<<"a">>), (<<"c">>)>>
  /\ callArgs.csvText[3] = <<(<<"c">>), (<<" ", "a">>)>>
  /\ Len(callResult.elements.edges) = 1
  /\ Len(callResult.elements.nodes) = 2

(***************************************************************************)
(* Specification SpecImport: a document with optional fields left out,     *)
(* given to GraphManager.initFromData and to yamlToCytoscapeElements        *)
(***************************************************************************)
\* lines 41-77 of yamlHandler.js with `visible: node.visible` in place of
\* `node.visible !== false`
yamlToCytoscapeElements_VisibleAsGiven(yamlGraph) ==
  [nodes |-> [i \in 1..Len(yamlGraph.nodes) |->
                LET node == yamlGraph.nodes[i]
                IN [data |-> [id |-> node.id,
                              label |-> node.label,
                              depth |-> IF Has(node, "depth") THEN node.depth ELSE 0,
                              visible |-> Has(node, "visible") /\ node.visible,
                              expanded |-> Has(node, "expanded") /\ node.expanded]]],
   edges |-> [i \in 1..Len(yamlGraph.edges) |->
                LET edge == yamlGraph.edges[i]
                IN [data |-> [id |-> <<edge.source, edge.target, i - 1>>,
                              source |-> String(edge.source),
                              target |-> String(edge.target),
                              relation |-> IF Has(edge, "relation")
                                           THEN edge.relation ELSE "",
                              weight |-> 1]]]]

\* yamlHandler.js 41-77.  The spread ...node comes last in the node literal:
\* a field the node has is kept as given (its id too, not String(id)), and a
\* field it lacks keeps the default written before the spread.
yamlToCytoscapeElements(yamlGraph) ==
  [nodes |-> [i \in 1..Len(yamlGraph.nodes) |->
                LET node == yamlGraph.nodes[i]
                IN [data |-> [id |-> node.id,
                              label |-> IF Has(node, "label") THEN node.label
                                        ELSE IdAsLabel(node.id),
                              depth |-> IF Has(node, "depth") THEN node.depth ELSE 0,
                              visible |-> IF Has(node, "visible") THEN node.visible
                                          ELSE TRUE,
                              expanded |-> IF Has(node, "expanded") THEN node.expanded
                                           ELSE FALSE]]],
   edges |-> [i \in 1..Len(yamlGraph.edges) |->
                LET edge == yamlGraph.edges[i]
                IN [data |-> [id |-> <<edge.source, edge.target, i - 1>>,
                              source |-> String(edge.source),
                              target |-> String(edge.target),
                              relation |-> IF Has(edge, "relation")
                                              /\ edge.relation # NoRelation
                                           THEN edge.relation ELSE "",
                              weight |-> 1]]]]

OptionalFields == {"depth", "visible", "expanded"}

\* values a document may give the optional fields: the defaults, or others
OptionalValues ==
  {[depth |-> 0, visible |-> TRUE, expanded |-> FALSE],
   [depth |-> 2, visible |-> FALSE, expanded |-> TRUE]}

\* node i of a document: id and label, and the optional fields in `present`
PartialNode(scheme, i, present, values) ==
  [f \in {"id", "label"} \cup present |->
     CASE f = "id" -> <<scheme, i>>
       [] f = "label" -> <<i, FALSE>>
       [] f = "depth" -> values.depth
       [] f = "visible" -> values.visible
       [] f = "expanded" -> values.expanded]

\* the edge from node i to node i + 1, with or without a relation
PartialEdge(scheme, i, withRelation) ==
  IF withRelation
  THEN [source |-> <<scheme, i>>, target |-> <<scheme, i + 1>>, relation |-> "r"]
  ELSE [source |-> <<scheme, i>>, target |-> <<scheme, i + 1>>]

InitImport ==
  /\ HierIdle /\ SimIdle /\ GmIdle /\ EmbIdle /\ UiIdle
  /\ \E scheme \in {"num", "str"}, k \in 1..MaxImportNodes :
       \E present \in [1..k -> SUBSET OptionalFields],
          values \in [1..k -> OptionalValues],
          withRelation \in [1..(k - 1) -> BOOLEAN] :
         callArgs =
           [fn |-> "import",
            data |-> [nodes |-> [i \in 1..k |->
                                   PartialNode(scheme, i, present[i], values[i])],
                      edges |-> [i \in 1..(k - 1) |->
                                   PartialEdge(scheme, i, withRelation[i])]]]
  /\ callResult = NoCall

\* graphManager.initFromData(graphData) on a new GraphManager
CallInitFromData ==
  /\ callArgs # NoCall
  /\ callResult = NoCall
  /\ LET G1 == initFromData(NewGraph, callArgs.data)
     IN callResult' = [fn |-> "initFromData",
                       nodes |-> [i \in 1..Len(G1.nodes) |->
                                    [depth |-> G1.nodes[i].depth,
                                     visible |-> G1.nodes[i].visible,
                                     expanded |-> G1.nodes[i].expanded]],
                       edges |-> [i \in 1..Len(G1.edges) |->
                                    [relation |-> G1.edges[i].relation]]]
  /\ UNCHANGED <<callArgs, hierVars, simVars, gmVars, embVars, uiVars>>

CallYamlToCytoscapeElements ==
  /\ callArgs # NoCall
  /\ callResult = NoCall
  /\ LET el == yamlToCytoscapeElements(callArgs.data)
     IN callResult' = [fn |-> "yamlToCytoscapeElements",
                       nodes |-> [i \in 1..Len(el.nodes) |->
                                    [depth |-> el.nodes[i].data.depth,
                                     visible |-> el.nodes[i].data.visible,
                                     expanded |-> el.nodes[i].data.expanded]],
                       edges |-> [i \in 1..Len(el.edges) |->
                                    [relation |-> el.edges[i].data.relation]]]
  /\ UNCHANGED <<callArgs, hierVars, simVars, gmVars, embVars, uiVars>>

NextImport == CallInitFromData \/ CallYamlToCytoscapeElements

SpecImport == InitImport /\ [][NextImport]_vars

\* C20: initFromData and yamlToCytoscapeElements import every node and edge
\* of a document, and give a node that lacks visible, expanded or depth the
\* values visible = true, expanded = false, depth = 0, and an edge that
\* lacks relation the empty string.
C20_ImportDefaults ==
  callResult # NoCall =>
    LET data == callArgs.data
    IN /\ Len(callResult.nodes) = Len(data.nodes)
       /\ Len(callResult.edges) = Len(data.edges)
       /\ \A i \in 1..Len(data.nodes) :
            /\ ~Has(data.nodes[i], "visible") => callResult.nodes[i].visible = TRUE
            /\ ~Has(data.nodes[i], "expanded") => callResult.nodes[i].expanded = FALSE
            /\ ~Has(data.nodes[i], "depth") => callResult.nodes[i].depth = 0
       /\ \A i \in 1..Len(data.edges) :
            ~Has(data.edges[i], "relation") => callResult.edges[i].relation = ""

\* initFromData has loaded a document whose second node has a depth only and
\* whose edge has no relation
C20_Witness ==
  /\ callResult # NoCall
  /\ callResult.fn = "initFromData"
  /\ Len(callArgs.data.nodes) = 2
  /\ DOMAIN callArgs.data.nodes[1] = {"id", "label"}
  /\ DOMAIN callArgs.data.nodes[2] = {"id", "label", "depth"}
  /\ callArgs.data.nodes[2].depth = 2
  /\ ~Has(callArgs.data.edges[1], "relation")
  /\ callResult.nodes[2] = [depth |-> 2, visible |-> TRUE, expanded |-> FALSE]
  /\ callResult.edges[1].relation = ""

(***************************************************************************)
(* Specification SpecDelete: deleteNode and clear called on a loaded       *)
(* GraphManager, with the graph as it was before the call kept in callArgs *)
(***************************************************************************)
\* the value deleteNode returns, lines 435-436 and 446
deleteNodeReturns(g, nodeId) == MapGet(g.nodes, String(nodeId)) # NoNodeGM

\* lines 485-490
clear(g) == [GraphOf(<<>>, <<>>, 1, 1) EXCEPT !.stale = {n.id : n \in Range(g.nodes)}]

InitDelete ==
  /\ HierIdle /\ SimIdle /\ EmbIdle /\ UiIdle /\ CallIdle
  /\ tasks = [s \in Slots |-> IdleTask]
  /\ \E graphData \in GraphDocs :
       LET G1 == initFromData(NewGraph, graphData)
       IN /\ gmNodes = G1.nodes
          /\ gmEdges = G1.edges
          /\ nextNodeId = G1.nextNodeId
          /\ nextEdgeId = G1.nextEdgeId

\* graphManager.deleteNode(nodeId), with an id of the graph as the graph
\* holds it or as a string, or with an id no node has
CallDeleteNode ==
  /\ \E nodeId \in IdForms(gmNodes) \cup {StrId(MaxImportNodes + 1)} :
       /\ callArgs' = [fn |-> "deleteNode", nodeId |-> nodeId, before |-> G]
       /\ callResult' = [fn |-> "deleteNode", value |-> deleteNodeReturns(G, nodeId)]
       /\ Install(deleteNode(G, nodeId), tasks)
  /\ UNCHANGED <<hierVars, simVars, embVars, uiVars>>

\* graphManager.clear()
CallClear ==
  /\ gmNodes # <<>>
  /\ callArgs' = [fn |-> "clear", nodeId |-> NoId, before |-> G]
  /\ callResult' = [fn |-> "clear", value |-> FALSE]
  /\ Install(clear(G), tasks)
  /\ UNCHANGED <<hierVars, simVars, embVars, uiVars>>

NextDelete == CallDeleteNode \/ CallClear

SpecDelete == InitDelete /\ [][NextDelete]_vars

\* the positions of s whose element is not x / does not touch id
WithoutNode(ns, id) == SelectSeq(ns, LAMBDA n : n.id # id)
WithoutEdgesOf(es, id) == SelectSeq(es, LAMBDA e : e.source # id /\ e.target # id)

\* C21: deleteNode(id) on an existing node removes exactly that node and
\* every edge that has it as source or target, leaves every other node and
\* edge unchanged and returns true; on an id that is not in the graph it
\* returns false and changes nothing; clear() empties both maps and resets
\* both id counters to 1.
C21_DeleteAndClear ==
  /\ callResult.fn = "deleteNode" =>
       LET before == callArgs.before
           id == callArgs.nodeId
       IN /\ (\E n \in Range(before.nodes) : n.id = id) =>
               /\ callResult.value = TRUE
               /\ gmNodes = WithoutNode(before.nodes, id)
               /\ gmEdges = WithoutEdgesOf(before.edges, id)
          /\ (\A n \in Range(before.nodes) : String(n.id) # String(id)) =>
               /\ callResult.value = FALSE
               /\ gmNodes = before.nodes
               /\ gmEdges = before.edges
  /\ callResult.fn = "clear" =>
       /\ gmNodes = <<>> /\ gmEdges = <<>>
       /\ nextNodeId = 1 /\ nextEdgeId = 1

(***************************************************************************)
(* Specification SpecMain: main.js, CSV files loaded one after the other   *)
(* into the accumulated graph, node taps and clearGraph.  The graph holds  *)
(* the ids of its nodes and the id, source and target of its edges; colours *)
(* and visibility are display state and are left out.                      *)
(***************************************************************************)
CsvIds == {<<"a">>, <<"c">>, <<"a", "-", "b">>}

\* a file: a header line, then up to MaxFileLines lines source,target that
\* join two different ids
CsvFiles ==
  {<<(<<(<<"a">>), (<<"c">>)>>)>> \o lines :
     lines \in SeqsUpTo({l \in CsvIds \X CsvIds : l[1] # l[2]}, MaxFileLines)}

\* cy.add(eles): an element whose id the graph has is not added, nor is an
\* edge without both of its endpoints in the graph
cyAdd(c, newNodes, newEdges) ==
  LET ns == c.nodes \cup newNodes
  IN [c EXCEPT !.nodes = ns,
               !.edges = @ \cup {e \in newEdges :
                                   /\ \A x \in c.edges : x.id # e.id
                                   /\ e.source \in ns /\ e.target \in ns}]

\* loadGraphData that adds every edge of the file
loadGraphData_NoFilter(c, elements) ==
  IF ~c.alive
  THEN [nodes |-> Range(elements.nodes), edges |-> Range(elements.edges),
        alive |-> TRUE]
  ELSE cyAdd(c, Range(elements.nodes), Range(elements.edges))

\* lines 166-289
loadGraphData(c, elements) ==
  IF ~c.alive
  THEN [nodes |-> Range(elements.nodes), edges |-> Range(elements.edges),
        alive |-> TRUE]
  ELSE LET existingEdgeKeys == {edgeKey(e.source, e.target) : e \in c.edges}
           newEdges == {e \in Range(elements.edges) :
                          edgeKey(e.source, e.target) \notin existingEdgeKeys}
       IN cyAdd(c, Range(elements.nodes), newEdges)

InitMain ==
  /\ HierIdle /\ SimIdle /\ GmIdle /\ EmbIdle /\ CallIdle
  /\ cy = [nodes |-> {}, edges |-> {}, alive |-> FALSE]
  /\ loadGroupCounter = 0
  /\ activeNode = NoId
  /\ isProcessing = FALSE
  /\ dbltapHandler = NoHandler
  /\ elementNodes = {}
  /\ replaced = <<>>
  /\ userEvents = 0

\* lines 418-477: reader.onload for a .csv file
LoadCsvFile ==
  /\ loadGroupCounter < MaxFileLoads
  /\ \E csvText \in CsvFiles :
       LET elements == csvToJsonForCytoscape(csvText)
       IN /\ callArgs' = [fn |-> "loadGraphData",
                          \* the file, kept when it is the first of a graph
                          csvText |-> IF cy.alive THEN <<>> ELSE csvText,
                          \* the file names, the other way round, a pair
                          \* the graph joins
                          reversed |-> \E e \in Range(elements.edges), x \in cy.edges :
                                         /\ e.source = x.target /\ e.target = x.source
                                         /\ e.source # e.target]
          /\ cy' = loadGraphData(cy, elements)
  /\ loadGroupCounter' = loadGroupCounter + 1
  /\ UNCHANGED <<activeNode, callResult, isProcessing, dbltapHandler,
                 elementNodes, replaced, userEvents, hierVars, simVars, gmVars, embVars>>

\* lines 180-194: cy.on('tap', 'node', ...)
TapNode ==
  /\ cy.alive
  /\ \E n \in cy.nodes : activeNode' = n
  /\ UNCHANGED <<cy, loadGroupCounter, isProcessing, dbltapHandler,
                 elementNodes, replaced, userEvents, hierVars, simVars, gmVars, embVars, callVars>>

\* lines 398-411
ClearGraph ==
  /\ cy' = [nodes |-> {}, edges |-> {}, alive |-> FALSE]
  /\ loadGroupCounter' = 0
  /\ activeNode' = NoId
  /\ callArgs' = [fn |-> "clearGraph"]
  /\ UNCHANGED <<callResult, isProcessing, dbltapHandler,
                 elementNodes, replaced, userEvents, hierVars, simVars, gmVars, embVars>>

NextMain == LoadCsvFile \/ TapNode \/ ClearGraph

SpecMain == InitMain /\ [][NextMain]_vars

\* C22: across CSV loads with no clear in between, the accumulated graph
\* holds at most one edge per unordered pair of node ids; after clearGraph
\* the instance, the load-group counter and the active node are reset, and
\* the next load starts from an empty graph: the graph then holds the
\* elements of that file only.
C22_OneEdgePerPairAcrossLoads ==
  /\ \A e1, e2 \in cy.edges :
       {e1.source, e1.target} = {e2.source, e2.target} => e1 = e2
  /\ callArgs.fn = "clearGraph" =>
       ~cy.alive /\ cy.nodes = {} /\ cy.edges = {}
       /\ loadGroupCounter = 0 /\ activeNode = NoId
  /\ (callArgs.fn = "loadGraphData" /\ loadGroupCounter = 1) =>
       LET elements == csvToJsonForCytoscape(callArgs.csvText)
       IN cy.nodes = Range(elements.nodes) /\ cy.edges = Range(elements.edges)

\* a second file named a pair the graph already joined, the other way
\* round, and the graph still has the one edge
C22_Witness ==
  /\ loadGroupCounter = 2
  /\ callArgs.fn = "loadGraphData"
  /\ callArgs.reversed
  /\ \E e \in cy.edges : e.source = <<"a">> /\ e.target = <<"c">>
  /\ Cardinality(cy.edges) = 1


(***************************************************************************)
(* Specification SpecLlmApp: the llm-dynamic-mindmap App after its         *)
(* initialization, with its expansions in flight while the user acts.      *)
(* null ids are NoId here.                                                 *)
(***************************************************************************)
MaxImports == 1      \* most YAML files imported into the llm-dynamic-mindmap App
MaxAppEdges == 1     \* most edges in a graph document given to the App
MaxAppWords == 1     \* most {word, relation} pairs in an LLM answer given to the App
MaxUserEvents == 3   \* most user events (taps, clicks, submits, files) the App is given

\* the documents the App loads: initial_graph.yaml and the imported files
AppDocs(schemes) ==
  UNION {{[nodes |-> ImportNodes(scheme, k), edges |-> es] :
            es \in SeqsUpTo(ImportEdge(ImportNodes(scheme, k)), MaxAppEdges)} :
         scheme \in schemes, k \in 1..MaxImportNodes}

AppAnswers ==
  SeqsUpTo({[word |-> w, relation |-> "related"] : w \in WordChoices}, MaxAppWords)

\* graphManager.js lines 202-237
toCytoscapeElements(g) ==
  LET visibleOrMissing(key) ==
        MapGet(g.nodes, key) = NoNodeGM \/ MapGet(g.nodes, key).visible
  IN [nodes |-> [i \in 1..Len(SelectSeq(g.nodes, LAMBDA n : n.visible)) |->
                   LET n == SelectSeq(g.nodes, LAMBDA m : m.visible)[i]
                   IN [id |-> String(n.id), label |-> n.label, depth |-> n.depth]],
      edges |-> SelectSeq(g.edges, LAMBDA e : visibleOrMissing(e.source)
                                               /\ visibleOrMissing(e.target))]

\* graphManager.js lines 412-419; NoNodeGM is undefined (an empty graph)
findRootNode(g) ==
  LET roots == {i \in 1..Len(g.nodes) : g.nodes[i].depth = 0}
  IN IF roots # {} THEN g.nodes[CHOOSE i \in roots : \A j \in roots : i <= j]
     ELSE IF g.nodes # <<>> THEN g.nodes[1]
     ELSE NoNodeGM

\* graphManager.js lines 452-459
hideNode(g, nodeId) ==
  [g EXCEPT !.nodes = [i \in 1..Len(@) |->
     IF @[i].id = String(nodeId) THEN [@[i] EXCEPT !.visible = FALSE] ELSE @[i]]]

\* graphManager.js lines 476-480
showAllNodes(g) ==
  [g EXCEPT !.nodes = [i \in 1..Len(@) |-> [@[i] EXCEPT !.visible = TRUE]]]

\* the GraphManager a closure or a call holds: 0 is the one the App holds
ManagerAt(k) == IF k = 0 THEN G ELSE replaced[k]

\* the state of manager k after a change; calls in flight on that manager
\* lose the node objects the change dropped
InstallAt(k, G1, ts) ==
  /\ tasks' = [s \in Slots |->
                 IF /\ ts[s].pc # "idle"
                    /\ ts[s].manager = k
                    /\ ts[s].held
                    /\ String(ts[s].arg) \in G1.stale
                 THEN [ts[s] EXCEPT !.held = FALSE] ELSE ts[s]]
  /\ IF k = 0
     THEN /\ gmNodes' = G1.nodes
          /\ gmEdges' = G1.edges
          /\ nextNodeId' = G1.nextNodeId
          /\ nextEdgeId' = G1.nextEdgeId
          /\ replaced' = replaced
     ELSE /\ replaced' = [replaced EXCEPT ![k] = [G1 EXCEPT !.stale = {}]]
          /\ UNCHANGED <<gmNodes, gmEdges, nextNodeId, nextEdgeId>>

\* App.jsx lines 92-96: setElements(graphManager.toCytoscapeElements())
updateElements(g) == {n.id : n \in Range(toCytoscapeElements(g).nodes)}

\* App.jsx lines 250-252
selectedNode ==
  IF selectedNodeId # NoId THEN getNode(gmNodes, selectedNodeId) ELSE NoNodeGM

\* the values a handler created by the latest render closes over
LatestRender == [mounted |-> TRUE, isProcessing |-> isProcessing, graphManager |-> 0]

\* App.jsx lines 34-77 have run, and CytoscapeGraph.jsx lines 135-197 have
\* registered the handlers of the first render that shows the graph
InitLlmApp ==
  /\ SimIdle /\ EmbIdle /\ CallIdle
  /\ nodes = <<>> /\ hiddenIds = {} /\ threshold = DefaultThreshold
  /\ maxDepth = 3 /\ hierarchy = NoTree
  /\ isLoading = FALSE
  /\ cy = NoCy /\ loadGroupCounter = 0 /\ activeNode = NoId
  /\ \E initialGraph \in AppDocs({"str", "num"}) :
       LET G1 == initFromData(NewGraph, initialGraph)
       IN /\ gmNodes = G1.nodes
          /\ gmEdges = G1.edges
          /\ nextNodeId = G1.nextNodeId
          /\ nextEdgeId = G1.nextEdgeId
          /\ elementNodes = updateElements(G1)
          /\ rootNodeId = findRootNode(G1).id
  /\ tasks = [s \in Slots |-> IdleTask]
  /\ selectedNodeId = NoId
  /\ isProcessing = FALSE
  /\ dbltapHandler = [mounted |-> TRUE, isProcessing |-> FALSE, graphManager |-> 0]
  /\ replaced = <<>>
  /\ userEvents = 0

\* one more of the user's events is handled
UserEvent == userEvents < MaxUserEvents /\ userEvents' = userEvents + 1

appIdle == <<nodes, hiddenIds, threshold, maxDepth, hierarchy, isLoading,
             cy, loadGroupCounter, activeNode, dbltapHandler,
             simVars, embVars, callVars>>

\* App.jsx lines 99-102, from CytoscapeGraph.jsx lines 158-165 and 178-185
OnNodeClick ==
  /\ UserEvent
  /\ \E nodeId \in elementNodes \cup {NoId} : selectedNodeId' = nodeId
  /\ UNCHANGED <<rootNodeId, isProcessing, elementNodes, replaced, gmVars, appIdle>>

\* App.jsx lines 105-122 up to the await, with the graphManager and the
\* isProcessing its closure holds.  A node that deepDiveNode does not find
\* makes it throw (graphManager.js 317-320): catch, then finally.
handleNodeDoubleClick(closure, nodeId) ==
  IF closure.isProcessing
  THEN UNCHANGED <<tasks, isProcessing>>
  ELSE IF getNode(ManagerAt(closure.graphManager).nodes, nodeId) = NoNodeGM
       THEN /\ isProcessing' = FALSE
            /\ UNCHANGED tasks
       ELSE /\ \E s \in Slots : tasks[s].pc = "idle"
            /\ isProcessing' = TRUE
            /\ tasks' = [tasks EXCEPT ![FreeSlot] =
                 [pc |-> "llm", kind |-> "deepDive", arg |-> nodeId, words |-> <<>>,
                  depth |-> getNode(ManagerAt(closure.graphManager).nodes, nodeId).depth,
                  held |-> TRUE, manager |-> closure.graphManager]]

\* CytoscapeGraph.jsx lines 168-175: the handler registered at mount; the
\* taps that make the double tap select the node (lines 158-165)
OnNodeDoubleClick ==
  /\ UserEvent
  /\ \E nodeId \in elementNodes :
       /\ selectedNodeId' = nodeId
       /\ handleNodeDoubleClick(dbltapHandler, nodeId)
  /\ UNCHANGED <<rootNodeId, elementNodes, replaced,
                 gmNodes, gmEdges, nextNodeId, nextEdgeId, appIdle>>

\* App.jsx lines 185-189; the button is shown for a selected node the
\* graph has and is disabled while isProcessing (lines 347, 358-361)
handleDeepDive ==
  /\ UserEvent
  /\ selectedNode # NoNodeGM
  /\ ~isProcessing
  /\ handleNodeDoubleClick(LatestRender, selectedNodeId)
  /\ UNCHANGED <<rootNodeId, selectedNodeId, elementNodes, replaced,
                 gmNodes, gmEdges, nextNodeId, nextEdgeId, appIdle>>

\* App.jsx lines 125-147 up to the await; the input and the button are
\* disabled while isProcessing (lines 294, 298)
handleAddKeyword ==
  /\ UserEvent
  /\ ~isProcessing
  /\ \E s \in Slots : tasks[s].pc = "idle"
  /\ LET parentId == IF selectedNodeId # NoId THEN selectedNodeId ELSE rootNodeId
     IN tasks' = [tasks EXCEPT ![FreeSlot] =
          [pc |-> "llm", kind |-> "generate", arg |-> parentId, words |-> <<>>,
           depth |-> 0, held |-> FALSE, manager |-> 0]]
  /\ isProcessing' = TRUE
  /\ UNCHANGED <<rootNodeId, selectedNodeId, elementNodes, replaced,
                 gmNodes, gmEdges, nextNodeId, nextEdgeId, appIdle>>

\* App.jsx lines 150-155
SetAsRoot ==
  /\ UserEvent
  /\ selectedNode # NoNodeGM
  /\ rootNodeId' = selectedNodeId
  /\ UNCHANGED <<selectedNodeId, isProcessing, elementNodes, replaced, gmVars, appIdle>>

\* App.jsx lines 158-164
handleHideNode ==
  /\ UserEvent
  /\ selectedNode # NoNodeGM
  /\ LET G1 == hideNode(G, selectedNodeId)
     IN /\ InstallAt(0, G1, tasks)
        /\ elementNodes' = updateElements(G1)
  /\ selectedNodeId' = NoId
  /\ UNCHANGED <<rootNodeId, isProcessing, appIdle>>

\* App.jsx lines 167-182, the confirm accepted
handleDeleteNode ==
  /\ UserEvent
  /\ selectedNode # NoNodeGM
  /\ LET G1 == deleteNode(G, selectedNodeId)
     IN /\ InstallAt(0, G1, tasks)
        /\ elementNodes' = updateElements(G1)
        /\ rootNodeId' = IF rootNodeId = selectedNodeId
                         THEN findRootNode(G1).id ELSE rootNodeId
  /\ selectedNodeId' = NoId
  /\ UNCHANGED <<isProcessing, appIdle>>

\* App.jsx lines 192-197
handleShowAll ==
  /\ UserEvent
  /\ \E n \in Range(gmNodes) : ~n.visible
  /\ LET G1 == showAllNodes(G)
     IN /\ InstallAt(0, G1, tasks)
        /\ elementNodes' = updateElements(G1)
  /\ UNCHANGED <<rootNodeId, selectedNodeId, isProcessing, appIdle>>

\* App.jsx lines 208-247, its two awaits resolving with no other event in
\* between.  The closures and calls that hold the old GraphManager keep it.
handleImport ==
  /\ UserEvent
  /\ Len(replaced) < MaxImports
  /\ \E yamlData \in AppDocs({"str", "num"}) :
       LET G1 == initFromData(NewGraph, yamlData)
           k == Len(replaced) + 1
       IN /\ gmNodes' = G1.nodes
          /\ gmEdges' = G1.edges
          /\ nextNodeId' = G1.nextNodeId
          /\ nextEdgeId' = G1.nextEdgeId
          /\ replaced' = Append(replaced, G)
          /\ tasks' = [s \in Slots |->
                         IF tasks[s].pc # "idle" /\ tasks[s].manager = 0
                         THEN [tasks[s] EXCEPT !.manager = k] ELSE tasks[s]]
          /\ dbltapHandler' = IF dbltapHandler.graphManager = 0
                              THEN [dbltapHandler EXCEPT !.graphManager = k]
                              ELSE dbltapHandler
          /\ elementNodes' = updateElements(G1)
          /\ rootNodeId' = IF findRootNode(G1) # NoNodeGM
                           THEN findRootNode(G1).id ELSE rootNodeId
  /\ isProcessing' = FALSE
  /\ UNCHANGED <<selectedNodeId, nodes, hiddenIds, threshold, maxDepth, hierarchy,
                 isLoading, cy, loadGroupCounter, activeNode,
                 simVars, embVars, callVars>>

\* graphManager.js lines 252-268 and 337-355: the LLM's answer arrives.  An
\* empty answer ends the call: the handler updates the elements and runs
\* its finally (App.jsx 113-121, 136-146).
LlmResolves(s) ==
  /\ UNCHANGED userEvents
  /\ tasks[s].pc = "llm"
  /\ LET t == tasks[s]
         M == ManagerAt(t.manager)
     IN \E relatedWords \in AppAnswers :
          /\ Len(M.nodes) + Len(relatedWords) <= MaxGmNodes
          /\ M.nextNodeId + Len(relatedWords) <= MaxCounter + 1
          /\ M.nextEdgeId + Len(relatedWords) <= MaxCounter + 1
          /\ IF relatedWords = <<>>
             THEN /\ tasks' = [tasks EXCEPT ![s] = IdleTask]
                  /\ elementNodes' = updateElements(M)
                  /\ isProcessing' = FALSE
             ELSE /\ tasks' = [tasks EXCEPT ![s] =
                       [@ EXCEPT !.pc = "embed", !.words = relatedWords,
                                 !.depth = IF t.kind = "generate"
                                           THEN parentDepth(M.nodes, t.arg) ELSE @]]
                  /\ UNCHANGED <<elementNodes, isProcessing>>
  /\ UNCHANGED <<rootNodeId, selectedNodeId, replaced,
                 gmNodes, gmEdges, nextNodeId, nextEdgeId, appIdle>>

\* the LLM call or getBatchEmbeddings rejects: catch, then finally
CallRejects(s) ==
  /\ UNCHANGED userEvents
  /\ tasks[s].pc \in {"llm", "embed"}
  /\ tasks' = [tasks EXCEPT ![s] = IdleTask]
  /\ isProcessing' = FALSE
  /\ UNCHANGED <<rootNodeId, selectedNodeId, elementNodes, replaced,
                 gmNodes, gmEdges, nextNodeId, nextEdgeId, appIdle>>

\* graphManager.js lines 269-310 and 356-394: the embeddings arrive and the
\* loop runs on the call's GraphManager; then updateElements of the
\* handler that made the call, and its finally
EmbeddingsResolve(s) ==
  /\ UNCHANGED userEvents
  /\ tasks[s].pc = "embed"
  /\ LET t == tasks[s]
         M == ManagerAt(t.manager)
         G1 == MarkExpanded(AddWords(M, t.words, 1, t.arg, t.depth + 1), t)
     IN /\ InstallAt(t.manager, G1, [tasks EXCEPT ![s] = IdleTask])
        /\ elementNodes' = updateElements(G1)
  /\ isProcessing' = FALSE
  /\ UNCHANGED <<rootNodeId, selectedNodeId, appIdle>>

NextLlmApp ==
  \/ OnNodeClick
  \/ OnNodeDoubleClick
  \/ handleDeepDive
  \/ handleAddKeyword
  \/ SetAsRoot
  \/ handleHideNode
  \/ handleDeleteNode
  \/ handleShowAll
  \/ handleImport
  \/ \E s \in Slots : LlmResolves(s)
  \/ \E s \in Slots : CallRejects(s)
  \/ \E s \in Slots : EmbeddingsResolve(s)

SpecLlmApp == InitLlmApp /\ [][NextLlmApp]_vars

ExpansionsInFlight == {s \in Slots : tasks[s].pc # "idle"}

\* C23: while one LLM expansion is in flight no user action (a double
\* click on a node, the deep-dive button, a keyword submit) starts a second
\* one: at most one generateRelatedNodes / deepDiveNode call is in flight.
C23_OneExpansionInFlight == Cardinality(ExpansionsInFlight) <= 1


\* C24: addNode called without an id never overwrites a node: the id
\* node_<n> it generates is the id of no node of the graph.  Every node the
\* graph holds when the loop of an expansion starts is still in the graph,
\* with its label, when the loop has run.
C24_GeneratedIdIsNew ==
  [][\A s \in Slots :
       (tasks[s].pc = "embed" /\ tasks'[s].pc = "idle") =>
         \A n \in Range(gmNodes) :
           \E m \in Range(gmNodes') : m.id = n.id /\ m.label = n.label]_vars


\* C25: every edge that toCytoscapeElements emits has its source and its
\* target among the nodes it emits (ids compared as Cytoscape compares
\* them, as strings), in every state of the App's GraphManager.
C25_EdgesHaveBothEnds ==
  LET els == toCytoscapeElements(G)
      ids == {n.id : n \in Range(els.nodes)}
  IN \A e \in Range(els.edges) : String(e.source) \in ids /\ String(e.target) \in ids


\* C26: generateRelatedNodes and deepDiveNode never add an edge from a node
\* to itself: no edge of the graph has the same node as source and target.
C26_NoSelfLoop ==
  \A e \in Range(gmEdges) : String(e.source) # String(e.target)


\* the App's GraphManager has a node with this id (as a string)
InGraph(id) == \E n \in Range(gmNodes) : String(n.id) = String(id)

\* C27: selectedNodeId and rootNodeId are each null or the id of a node of
\* the App's current GraphManager.
C27_SelectedAndRootInGraph ==
  /\ selectedNodeId # NoId => InGraph(selectedNodeId)
  /\ rootNodeId # NoId => InGraph(rootNodeId)


\* C28: generateSimilarityEdges drops no connection: for every node n with
\* a vector and every node s among the first maxEdgesPerNode entries of
\* findSimilarNodes(n, nodes, threshold), the result holds an edge between
\* n and s, in one direction or the other.
C28_NoConnectionDropped ==
  simEdges.done =>
    \A k \in 1..Len(simNodes) :
      simNodes[k].vector # NoVector =>
        \A similar \in Range(Slice(findSimilarNodes(simNodes[k], simNodes, simThreshold),
                                   maxEdgesPerNode)) :
          \E e \in Range(simEdges.edges) :
            {e.source, e.target} = {simNodes[k].id, similar.id}


\* part_002 lines 596-598
isModelLoaded == embedder

\* part_002 lines 604-608
getModelStatus ==
  IF embedder THEN "loaded" ELSE IF embIsLoading THEN "loading" ELSE "idle"

IsAssigned_Never(assigned, id) == FALSE

\* part_001 lines 141 and 149: assigned.has(id)
IsAssigned(assigned, id) == id \in assigned

\* part_001 lines 147-153: the loop over similarNodes; acc carries the
\* cluster and the assigned set
RECURSIVE AddSimilarNodes(_, _, _)
AddSimilarNodes(similarNodes, i, acc) ==
  IF i > Len(similarNodes) THEN acc
  ELSE LET similar == similarNodes[i]
       IN AddSimilarNodes(similarNodes, i + 1,
            IF ~IsAssigned(acc.assigned, similar.id)
            THEN [cluster |-> Append(acc.cluster, similar),
                  assigned |-> acc.assigned \cup {similar.id}]
            ELSE acc)

\* part_001 lines 140-157: the loop over nodes; acc carries the clusters
\* and the assigned set
RECURSIVE ClustersFrom(_, _, _, _)
ClustersFrom(ns, i, thr, acc) ==
  IF i > Len(ns) THEN acc
  ELSE IF IsAssigned(acc.assigned, ns[i].id) \/ ns[i].vector = NoVector
  THEN ClustersFrom(ns, i + 1, thr, acc)
  ELSE LET grown == AddSimilarNodes(findSimilarNodes(ns[i], ns, thr), 1,
                      [cluster |-> <<ns[i]>>,
                       assigned |-> acc.assigned \cup {ns[i].id}])
       IN ClustersFrom(ns, i + 1, thr,
            [clusters |-> Append(acc.clusters, grown.cluster),
             assigned |-> grown.assigned])

\* part_001 lines 137-160
clusterNodes(ns, thr) ==
  ClustersFrom(ns, 1, thr, [clusters |-> <<>>, assigned |-> {}]).clusters

InitCluster ==
  /\ simNodes \in SimNodeLists(MaxSimNodes)
  /\ simThreshold = Frac(7, 10)
  /\ maxEdgesPerNode = 3
  /\ simEdges = [done |-> FALSE, edges |-> <<>>]
  /\ HierIdle /\ GmIdle /\ EmbIdle /\ UiIdle /\ CallIdle

CallClusterNodes ==
  /\ callResult = NoCall
  /\ \E thr \in Thresholds :
       /\ simThreshold' = thr
       /\ callArgs' = [fn |-> "clusterNodes", nodes |-> simNodes, threshold |-> thr]
       /\ callResult' = [fn |-> "clusterNodes", value |-> clusterNodes(simNodes, thr)]
  /\ UNCHANGED <<simNodes, maxEdgesPerNode, simEdges, hierVars, gmVars, embVars, uiVars>>

NextCluster == CallClusterNodes

SpecCluster == InitCluster /\ [][NextCluster]_vars

\* C30: clusterNodes partitions the nodes that have a vector: each of them
\* is in exactly one place of exactly one cluster, a node without a vector
\* is in none, no cluster is empty, and every member of a cluster but its
\* first has similarity at least the threshold to the first.
C30_ClustersPartition ==
  callResult.fn = "clusterNodes" =>
    LET clusters == callResult.value
        places(id) == {<<c, m>> \in (1..Len(clusters)) \X (1..Len(callArgs.nodes)) :
                         m <= Len(clusters[c]) /\ clusters[c][m].id = id}
    IN /\ \A k \in 1..Len(callArgs.nodes) :
            LET node == callArgs.nodes[k]
            IN Cardinality(places(node.id)) = IF node.vector = NoVector THEN 0 ELSE 1
       /\ \A c \in 1..Len(clusters) :
            /\ clusters[c] # <<>>
            /\ \A m \in 2..Len(clusters[c]) :
                 FracGE(cosineSimilarity(clusters[c][1].vector, clusters[c][m].vector),
                        callArgs.threshold)
            /\ \A m \in 1..Len(clusters[c]) :
                 \E k \in 1..Len(callArgs.nodes) : callArgs.nodes[k].id = clusters[c][m].id

\* a node similar to two cluster heads is in the first one's cluster only,
\* and a node without a vector was passed over
C30_Witness ==
  /\ callResult.fn = "clusterNodes"
  /\ Len(callResult.value) >= 2
  /\ \E k \in 1..Len(callArgs.nodes) : callArgs.nodes[k].vector = NoVector
  /\ \E member \in Range(callResult.value[1]) :
       /\ member.id # callResult.value[1][1].id
       /\ FracGE(cosineSimilarity(callResult.value[2][1].vector, member.vector),
                 callArgs.threshold)

====
